---- MODULE Spec2Model ----
(***************************************************************************)
(* The /chat dialogue engine of amazon-pay-bot.                            *)
(*                                                                         *)
(* Four handlers are modelled: backend/server.js ("server") and the three  *)
(* business-aware handlers of unnamed/part_000 ("v1", "v2", "v3").         *)
(*                                                                         *)
(* A message is a sequence of one-character strings, so that trimming,     *)
(* lower-casing, the regular expressions and parseInt are computed on the  *)
(* characters as the JavaScript computes them.                             *)
(***************************************************************************)
EXTENDS Integers, Sequences, FiniteSets, TLC

VARIABLES
    variant,    \* which handler file is running: "server", "v1", "v2", "v3"
    sessions,   \* the Map `sessions`: session id -> [stage, data]
    resp,       \* the JSON body of the last response (res.json(...))
    turn,       \* the last request and the session as the handler found it
    pending,    \* requests received together and not yet handled (Node's queue)
    client      \* the state of the chat page (App.jsx) and its requests in flight

vars == <<variant, sessions, resp, turn, pending, client>>

----------------------------------------------------------------------------
(* Characters and strings *)

Digits == <<"0", "1", "2", "3", "4", "5", "6", "7", "8", "9">>

LowerCase ==
    <<"a", "b", "c", "d", "e", "f", "g", "h", "i", "j", "k", "l", "m",
      "n", "o", "p", "q", "r", "s", "t", "u", "v", "w", "x", "y", "z">>

UpperCase ==
    <<"A", "B", "C", "D", "E", "F", "G", "H", "I", "J", "K", "L", "M",
      "N", "O", "P", "Q", "R", "S", "T", "U", "V", "W", "X", "Y", "Z">>

Range(s) == {s[i] : i \in 1..Len(s)}

DigitChars == Range(Digits)
UpperChars == Range(UpperCase)
WordChars == Range(LowerCase) \cup Range(UpperCase) \cup Range(Digits) \cup {"_"}

IsDigit(c) == c \in DigitChars

\* \s of the regular expressions and the characters String.trim removes
IsSpace(c) == c \in {" ", "\t", "\n"}

\* \w of the regular expressions: [A-Za-z0-9_]
IsWordChar(c) == c \in WordChars

\* A character outside ASCII is written by its code point: "U+20B9" is the
\* rupee sign, "U+00C7" and "U+00E7" are the capital and the small c with
\* cedilla.
LowerOf == [c \in UpperChars |-> LowerCase[CHOOSE i \in 1..26 : UpperCase[i] = c]]

LowerChar(c) ==
    IF c \in UpperChars THEN LowerOf[c]
    ELSE IF c = "U+00C7" THEN "U+00E7"
    ELSE c

\* String.prototype.toLowerCase
toLowerCase(s) == [i \in 1..Len(s) |-> LowerChar(s[i])]

\* String.prototype.trim
RECURSIVE trim(_)
trim(s) ==
    IF s = <<>> THEN s
    ELSE IF IsSpace(s[1]) THEN trim(Tail(s))
    ELSE IF IsSpace(s[Len(s)]) THEN trim(SubSeq(s, 1, Len(s) - 1))
    ELSE s

\* s.startsWith(p)
startsWith(s, p) == Len(s) >= Len(p) /\ SubSeq(s, 1, Len(p)) = p

\* s.includes(p)
includes(s, p) ==
    \E i \in 1..(Len(s) - Len(p) + 1) : SubSeq(s, i, i + Len(p) - 1) = p

\* s.split(sep)[k] for a one-character separator, k counted from 0;
\* <<>> stands for both undefined and the empty string (both falsy, and
\* every caller tests the result for truthiness or applies `|| ''`)
RECURSIVE splitAt(_, _, _)
splitAt(s, sep, k) ==
    LET cut == IF \E i \in 1..Len(s) : s[i] = sep
               THEN CHOOSE i \in 1..Len(s) :
                        s[i] = sep /\ \A j \in 1..(i - 1) : s[j] # sep
               ELSE Len(s) + 1
    IN  IF k = 0 THEN SubSeq(s, 1, cut - 1)
        ELSE IF cut > Len(s) THEN <<>>
        ELSE splitAt(SubSeq(s, cut + 1, Len(s)), sep, k - 1)

DigitValue == [c \in DigitChars |-> (CHOOSE i \in 1..10 : Digits[i] = c) - 1]

\* the value of a string of decimal digits
RECURSIVE digitsValue(_)
digitsValue(d) ==
    IF d = <<>> THEN 0
    ELSE 10 * digitsValue(SubSeq(d, 1, Len(d) - 1))
         + DigitValue[d[Len(d)]]

\* The Number Infinity. It is written as an integer above every finite
\* amount of the model, so that `amount <= 0` is false for it as in
\* JavaScript; no arithmetic is done on it.
Infinity == 2147483647

\* 2^1024 - 2^970, the least integer whose Number value is Infinity (the
\* midpoint between Number.MAX_VALUE and 2^1024, which rounds up)
InfinityFrom ==
    <<"1", "7", "9", "7", "6", "9", "3", "1", "3", "4", "8", "6", "2", "3", "1", "5", "8", "0", "7", "9",
       "3", "7", "2", "8", "9", "7", "1", "4", "0", "5", "3", "0", "3", "4", "1", "5", "0", "7", "9", "9",
       "3", "4", "1", "3", "2", "7", "1", "0", "0", "3", "7", "8", "2", "6", "9", "3", "6", "1", "7", "3",
       "7", "7", "8", "9", "8", "0", "4", "4", "4", "9", "6", "8", "2", "9", "2", "7", "6", "4", "7", "5",
       "0", "9", "4", "6", "6", "4", "9", "0", "1", "7", "9", "7", "7", "5", "8", "7", "2", "0", "7", "0",
       "9", "6", "3", "3", "0", "2", "8", "6", "4", "1", "6", "6", "9", "2", "8", "8", "7", "9", "1", "0",
       "9", "4", "6", "5", "5", "5", "5", "4", "7", "8", "5", "1", "9", "4", "0", "4", "0", "2", "6", "3",
       "0", "6", "5", "7", "4", "8", "8", "6", "7", "1", "5", "0", "5", "8", "2", "0", "6", "8", "1", "9",
       "0", "8", "9", "0", "2", "0", "0", "0", "7", "0", "8", "3", "8", "3", "6", "7", "6", "2", "7", "3",
       "8", "5", "4", "8", "4", "5", "8", "1", "7", "7", "1", "1", "5", "3", "1", "7", "6", "4", "4", "7",
       "5", "7", "3", "0", "2", "7", "0", "0", "6", "9", "8", "5", "5", "5", "7", "1", "3", "6", "6", "9",
       "5", "9", "6", "2", "2", "8", "4", "2", "9", "1", "4", "8", "1", "9", "8", "6", "0", "8", "3", "4",
       "9", "3", "6", "4", "7", "5", "2", "9", "2", "7", "1", "9", "0", "7", "4", "1", "6", "8", "4", "4",
       "4", "3", "6", "5", "5", "1", "0", "7", "0", "4", "3", "4", "2", "7", "1", "1", "5", "5", "9", "6",
       "9", "9", "5", "0", "8", "0", "9", "3", "0", "4", "2", "8", "8", "0", "1", "7", "7", "9", "0", "4",
       "1", "7", "4", "4", "9", "7", "7", "9", "2">>

RECURSIVE stripLeadingZeros(_)
stripLeadingZeros(d) ==
    IF d # <<>> /\ d[1] = "0" THEN stripLeadingZeros(Tail(d)) ELSE d

\* the integer written by the digits d is at least InfinityFrom
overflowsNumber(d) ==
    LET n == stripLeadingZeros(d)
    IN  \/ Len(n) > Len(InfinityFrom)
        \/ /\ Len(n) = Len(InfinityFrom)
           /\ ~\E i \in 1..Len(n) :
                  /\ DigitValue[n[i]] < DigitValue[InfinityFrom[i]]
                  /\ \A j \in 1..(i - 1) : n[j] = InfinityFrom[j]

\* parseInt(digits, 10) of a non-empty string of decimal digits: the Number
\* value of the integer. The finite values of the model are small enough to
\* be exact.
parseInt(d) == IF overflowsNumber(d) THEN Infinity ELSE digitsValue(d)

\* message.replace(/[^0-9]/g, '')
stripNonDigits(s) == SelectSeq(s, IsDigit)

\* Number.prototype.toString of a non-negative integer
RECURSIVE intToString(_)
intToString(n) ==
    IF n < 10 THEN <<Digits[n + 1]>>
    ELSE intToString(n \div 10) \o <<Digits[(n % 10) + 1]>>

----------------------------------------------------------------------------
(* Helpers of the server *)

GreetingWords == {<<"h", "i">>, <<"h", "e", "l", "l", "o">>, <<"h", "e", "y">>}

\* /\b(hi|hello|hey)\b/i.test(userMessage)
isGreeting(userMessage) ==
    LET s == toLowerCase(userMessage)
    IN  \E w \in GreetingWords :
          \E i \in 1..(Len(s) - Len(w) + 1) :
            /\ SubSeq(s, i, i + Len(w) - 1) = w
            /\ (i = 1 \/ ~IsWordChar(s[i - 1]))
            /\ (i + Len(w) - 1 = Len(s) \/ ~IsWordChar(s[i + Len(w)]))

\* normalizeAmount: null is [null |-> TRUE]
Null == [null |-> TRUE, value |-> 0]

\* seeded fault: parseInt of the raw text instead of its digits
normalizeAmount_ParseRawText(message) ==
    LET digits == IF message = <<>> \/ ~IsDigit(message[1]) THEN <<>>
                  ELSE SubSeq(message, 1,
                              CHOOSE n \in 1..Len(message) :
                                  /\ \A i \in 1..n : IsDigit(message[i])
                                  /\ (n = Len(message) \/ ~IsDigit(message[n + 1])))
    IN  IF digits = <<>> THEN Null
        ELSE [null |-> FALSE, value |-> parseInt(digits)]

normalizeAmount(message) ==
    IF message = <<>> THEN Null
    ELSE LET digits == stripNonDigits(message)
         IN  IF digits = <<>> THEN Null
             ELSE [null |-> FALSE, value |-> parseInt(digits)]

\* isValidEmail: /^[^\s@]+@[^\s@]+\.[^\s@]+$/ on the lower-cased text
IsLocalChar(c) == ~IsSpace(c) /\ c # "@"

isValidEmail(text) ==
    LET s == toLowerCase(text)
    IN  \E a \in 2..(Len(s) - 3) :
          /\ s[a] = "@"
          /\ \A i \in 1..(a - 1) : IsLocalChar(s[i])
          /\ \E d \in (a + 2)..(Len(s) - 1) :
               /\ s[d] = "."
               /\ \A i \in (a + 1)..Len(s) : IsLocalChar(s[i])

\* getTemplates(): the ids of the gallery
TemplateIds == {<<"t", "1">>, <<"t", "2">>, <<"t", "3">>, <<"t", "4">>}


\* findTemplateById(templateId) found a template (its result is not null)
findTemplateById(templateId) == templateId \in TemplateIds

\* generateGiftLink(): the fixed prefix and the random token
generateGiftLink(token) == [prefix |-> "https://mock.amazon/gift/", token |-> token]

----------------------------------------------------------------------------
(* The draft `state.data` is a function from the names of the fields that   *)
(* are set to their values; {} is the function with the empty domain.       *)

NoData == <<>>
NoLink == <<>>
NoId == "none"

Has(data, k) == k \in DOMAIN data

\* state.data.k = v
Put(data, k, v) == (k :> v) @@ data

\* What a stage branch leaves behind: the session's stage and draft, and the
\* response body {reply, sessionId, ui} (sessionId is added by the handler).
Out(stage, data, reply, ui) ==
    [stage |-> stage, data |-> data, reply |-> reply, ui |-> ui,
     link |-> NoLink, receipt |-> NoData, summary |-> NoData, status |-> 200]

\* what the reply text quotes: the order summary [gross, discount, net] of
\* a business order, the details of the gift card to confirm, or the request
\* id that has just been generated
WithSummary(out, summary) == [out EXCEPT !.summary = summary]

\* the catch block: status 500, the fixed apology, sessionId null
Fault(state) ==
    [stage |-> state.stage, data |-> state.data,
     reply |-> "Something went wrong. Please try again.", ui |-> "undefined",
     link |-> NoLink, receipt |-> NoData, summary |-> NoData, status |-> 500]

----------------------------------------------------------------------------
(* The stages of the personal flow, the same code in all four handlers *)

Str_other == <<"o", "t", "h", "e", "r">>
Str_thankyou == <<"t", "h", "a", "n", "k", "y", "o", "u">>
Str_thank_you == <<"t", "h", "a", "n", "k", " ", "y", "o", "u">>
Str_birthday == <<"b", "i", "r", "t", "h", "d", "a", "y">>
Str_diwali == <<"d", "i", "w", "a", "l", "i">>
Str_confirm == <<"c", "o", "n", "f", "i", "r", "m">>
Str_cancel == <<"c", "a", "n", "c", "e", "l">>
Str_templateColon == <<"t", "e", "m", "p", "l", "a", "t", "e", ":">>

KnownOccasions == {Str_birthday, Str_thank_you, Str_thankyou, Str_diwali, Str_other}

\* seeded fault: the greeting opens the buyer-type question
StageIdle_AsksBuyerType(state, userMessage) ==
    IF isGreeting(userMessage)
    THEN Out("askBuyerType", state.data, "Welcome to Amazon Pay Gift Cards",
             "buyerTypeOptions")
    ELSE Out(state.stage, state.data, "Please say 'hi' to begin.", "undefined")

\* server.js: stage idle
StageIdle(state, userMessage) ==
    IF isGreeting(userMessage)
    THEN Out("askOccasion", state.data, "Welcome to Amazon Pay Gift Cards", "occasionOptions")
    ELSE Out(state.stage, state.data, "Please say 'hi' to begin.", "undefined")

StageAskOccasion(state, userMessage) ==
    LET text == toLowerCase(userMessage)
    IN  IF text = <<>>
        THEN Out(state.stage, state.data,
                 "For what occasion you want to buy a gift card?", "occasionOptions")
        ELSE IF text = Str_other
        THEN Out("askOccasionCustom", state.data, "Please enter the occasion.", "undefined")
        ELSE Out("askTemplate",
                 Put(state.data, "occasion",
                     IF text \in KnownOccasions
                     THEN (IF text = Str_thankyou THEN Str_thank_you ELSE text)
                     ELSE userMessage),
                 "Choose a gift card template.", "templatePicker")

\* seeded fault: a greeting typed as the occasion restarts the dialogue
StageAskOccasionCustom_GreetingRestarts(state, userMessage) ==
    IF userMessage = <<>>
    THEN Out(state.stage, state.data, "Please enter the occasion.", "undefined")
    ELSE IF isGreeting(userMessage)
    THEN Out("askOccasion", NoData, "Welcome to Amazon Pay Gift Cards", "occasionOptions")
    ELSE Out("askTemplate", Put(state.data, "occasion", userMessage),
             "Choose a gift card template.", "templatePicker")

\* seeded fault: the custom occasion is stored and the occasion asked again
StageAskOccasionCustom_AsksAgain(state, userMessage) ==
    IF userMessage = <<>>
    THEN Out(state.stage, state.data, "Please enter the occasion.", "undefined")
    ELSE Out("askOccasion", Put(state.data, "occasion", userMessage),
             "For what occasion you want to buy a gift card?", "occasionOptions")

StageAskOccasionCustom(state, userMessage) ==
    IF userMessage = <<>>
    THEN Out(state.stage, state.data, "Please enter the occasion.", "undefined")
    ELSE Out("askTemplate", Put(state.data, "occasion", userMessage),
             "Choose a gift card template.", "templatePicker")

\* the templateId the askTemplate stage reads from the message; <<>> is
\* null, undefined or '' (all falsy)
selectedTemplateId(userMessage) ==
    LET m == toLowerCase(userMessage)
    IN  IF startsWith(m, Str_templateColon) THEN splitAt(m, ":", 1)
        ELSE IF Len(m) >= 2 /\ m[1] = "t" /\ \A i \in 2..Len(m) : IsDigit(m[i]) THEN m
        ELSE <<>>

\* seeded fault: only the ids of the gallery are accepted
StageAskTemplate_GalleryOnly(state, userMessage) ==
    LET templateId == selectedTemplateId(userMessage)
    IN  IF templateId = <<>> \/ ~findTemplateById(templateId)
        THEN Out(state.stage, state.data, "Please select a template.", "templatePicker")
        ELSE Out("askAmount", Put(state.data, "templateId", templateId),
                 "Select the amount or enter a custom amount.", "amountOptions")

StageAskTemplate(state, userMessage) ==
    LET templateId == selectedTemplateId(userMessage)
    IN  IF templateId = <<>>
        THEN Out(state.stage, state.data, "Please select a template.", "templatePicker")
        ELSE Out("askAmount", Put(state.data, "templateId", templateId),
                 "Select the amount or enter a custom amount.", "amountOptions")

\* seeded fault: 'cancel' is honoured in the amount stage
StageAskAmount_CancelResets(state, userMessage) ==
    LET amount == normalizeAmount(userMessage)
    IN  IF toLowerCase(userMessage) = Str_cancel
        THEN Out("idle", NoData, "Cancelled. Say 'hi' to start again.", "undefined")
        ELSE IF amount.null \/ amount.value <= 0
        THEN Out(state.stage, state.data, "Please enter a valid amount.", "amountOptions")
        ELSE Out("askRecipientEmail", Put(state.data, "amount", amount.value),
                 "Who would you like to send it to? Please enter recipient email id.",
                 "undefined")

StageAskAmount(state, userMessage) ==
    LET amount == normalizeAmount(userMessage)
    IN  IF amount.null \/ amount.value <= 0
        THEN Out(state.stage, state.data, "Please enter a valid amount.", "amountOptions")
        ELSE Out("askRecipientEmail", Put(state.data, "amount", amount.value),
                 "Who would you like to send it to? Please enter recipient email id.",
                 "undefined")

\* seeded fault: storing the address drops the amount from the draft
StageAskRecipientEmail_DropsAmount(state, userMessage) ==
    IF ~isValidEmail(userMessage)
    THEN Out(state.stage, state.data, "Please provide a valid email address.", "undefined")
    ELSE Out("askMessage",
             Put([k \in DOMAIN state.data \ {"amount"} |-> state.data[k]],
                 "recipientEmail", userMessage),
             "Please enter your gift card message.", "undefined")

\* seeded fault: the address is stored without the check
StageAskRecipientEmail_Unchecked(state, userMessage) ==
    Out("askMessage", Put(state.data, "recipientEmail", userMessage),
        "Please enter your gift card message.", "undefined")

StageAskRecipientEmail(state, userMessage) ==
    IF ~isValidEmail(userMessage)
    THEN Out(state.stage, state.data, "Please provide a valid email address.", "undefined")
    ELSE Out("askMessage", Put(state.data, "recipientEmail", userMessage),
             "Please enter your gift card message.", "undefined")

\* seeded fault: the order is placed without the confirmation
StageAskMessage_PlacesOrder(state, userMessage) ==
    Out("completed", Put(state.data, "personalMessage", userMessage),
        "Success! Your gift card is ready.", "undefined")

\* the labels of getTemplates()
TemplateLabels ==
    (<<"t", "1">> :> <<"H", "a", "p", "p", "y", " ", "B", "i", "r", "t", "h", "d", "a", "y">>)
    @@ (<<"t", "2">> :> <<"D", "i", "w", "a", "l", "i">>)
    @@ (<<"t", "3">> :> <<"R", "a", "k", "s", "h", "a", " ", "B", "a", "n", "d", "h", "a", "n">>)
    @@ (<<"t", "4">> :> <<"S", "o", "r", "r", "y", "/", "T", "h", "a", "n", "k", " ", "Y", "o", "u">>)

\* chosenTemplate ? chosenTemplate.label : state.data.templateId
templateLabel(templateId) ==
    IF findTemplateById(templateId) THEN TemplateLabels[templateId] ELSE templateId

\* the digit grouping of the locale en-IN: the last three digits, and the
\* digits before them in pairs
RECURSIVE groupPairs(_)
groupPairs(d) ==
    IF Len(d) <= 2 THEN d
    ELSE groupPairs(SubSeq(d, 1, Len(d) - 2)) \o <<",">> \o SubSeq(d, Len(d) - 1, Len(d))

\* formatCurrencyInr(amount) of a non-negative integer or Infinity:
\* Intl.NumberFormat 'en-IN', currency INR, no fraction digits; "U+221E" is
\* the infinity sign
formatCurrencyInr(amount) ==
    IF amount = Infinity THEN <<"U+20B9", "U+221E">>
    ELSE LET d == intToString(amount)
         IN  <<"U+20B9">> \o
             (IF Len(d) <= 3 THEN d
              ELSE groupPairs(SubSeq(d, 1, Len(d) - 3)) \o <<",">>
                       \o SubSeq(d, Len(d) - 2, Len(d)))

\* what the confirmation shows: ui.details, and the amount as the reply
\* text prints it
confirmDetails(data) ==
    [occasion |-> data["occasion"],
     templateId |-> data["templateId"],
     templateLabel |-> templateLabel(data["templateId"]),
     amount |-> data["amount"],
     amountText |-> formatCurrencyInr(data["amount"]),
     recipientEmail |-> data["recipientEmail"],
     personalMessage |-> data["personalMessage"]]

StageAskMessage(state, userMessage) ==
    LET data == Put(state.data, "personalMessage", userMessage)
    IN  WithSummary(Out("confirm", data,
                        "Here are the gift card details you have selected:", "confirm"),
                    confirmDetails(data))

\* The fields of the draft the receipt / the success reply prints. A field
\* the draft lacks is undefined there and is left out; personalMessage || null
\* (server.js) and || '(none)' (part_000) are <<>>.
ReceiptFields == {"occasion", "templateId", "amount", "recipientEmail", "personalMessage"}

receiptOf(data, link) ==
    Put([k \in DOMAIN data \cap ReceiptFields |-> data[k]], "giftLink", link)

\* JSON.stringify of a Number: its decimal digits, and null for Infinity
jsonNumber(n) == IF n = Infinity THEN <<"n", "u", "l", "l">> ELSE intToString(n)

\* the receipt as the reply prints it: the amount by JSON.stringify in
\* server.js and by formatCurrencyInr in part_000
printed(v, receipt) ==
    IF "amount" \in DOMAIN receipt
    THEN [receipt EXCEPT !["amount"] =
              IF v = "server" THEN jsonNumber(@) ELSE formatCurrencyInr(@)]
    ELSE receipt

\* seeded fault: 'cancel' leaves the draft in place
StageConfirm_CancelKeepsDraft(v, state, userMessage, rnd) ==
    LET text == toLowerCase(userMessage)
        link == generateGiftLink(rnd.token)
    IN  IF text = Str_confirm
        THEN [stage |-> "completed", data |-> state.data,
              reply |-> "Success! Your gift card is ready.",
              ui |-> "undefined", link |-> link,
              receipt |-> printed(v, receiptOf(state.data, link)),
              summary |-> NoData, status |-> 200]
        ELSE IF text = Str_cancel
        THEN Out("idle", state.data, "Cancelled. Say 'hi' to start again.", "undefined")
        ELSE Out(state.stage, state.data, "Please reply with 'confirm' or 'cancel'.",
                 "undefined")

\* seeded fault: the draw of the link token decides whether the order is
\* placed
StageConfirm_DrawDecides(v, state, userMessage, rnd) ==
    LET text == toLowerCase(userMessage)
        link == generateGiftLink(rnd.token)
    IN  IF text = Str_confirm /\ rnd.token = "4f2a9c"
        THEN [stage |-> "completed", data |-> state.data,
              reply |-> IF v = "server"
                        THEN "Success! Your gift card is ready."
                        ELSE "Success! Your gift card is sent on recipient email.",
              ui |-> "undefined", link |-> link,
              receipt |-> IF v = "server"
                          THEN Put(printed(v, receiptOf(state.data, link)),
                                   "orderId", rnd.orderId)
                          ELSE printed(v, receiptOf(state.data, link)),
              summary |-> NoData, status |-> 200]
        ELSE IF text = Str_cancel
        THEN Out("idle", NoData, "Cancelled. Say 'hi' to start again.", "undefined")
        ELSE Out(state.stage, state.data, "Please reply with 'confirm' or 'cancel'.",
                 "undefined")

\* rnd: the random values of the turn, [token, orderId]
StageConfirm(v, state, userMessage, rnd) ==
    LET text == toLowerCase(userMessage)
        link == generateGiftLink(rnd.token)
    IN  IF text = Str_confirm
        THEN [stage |-> "completed", data |-> state.data,
              reply |-> IF v = "server"
                        THEN "Success! Your gift card is ready."
                        ELSE "Success! Your gift card is sent on recipient email.",
              ui |-> "undefined", link |-> link,
              receipt |-> IF v = "server"
                          THEN Put(printed(v, receiptOf(state.data, link)),
                                   "orderId", rnd.orderId)
                          ELSE printed(v, receiptOf(state.data, link)),
              summary |-> NoData, status |-> 200]
        ELSE IF text = Str_cancel
        THEN Out("idle", NoData, "Cancelled. Say 'hi' to start again.", "undefined")
        ELSE Out(state.stage, state.data, "Please reply with 'confirm' or 'cancel'.",
                 "undefined")

\* seeded fault: the restart after completion keeps the old draft
StageCompleted_KeepsDraft(state, userMessage) ==
    Out("idle", state.data, "Say 'hi' to start a new gift card.", "undefined")

\* seeded fault: after completion the session returns to the confirmation
\* of the order it has just placed
StageCompleted_BackToConfirm(state, userMessage) ==
    Out("confirm", state.data, "Please reply with 'confirm' or 'cancel'.", "undefined")

\* seeded fault: the restart sets a stage label no branch tests
StageCompleted_UnknownStage(state, userMessage) ==
    Out("restart", NoData, "Say 'hi' to start a new gift card.", "undefined")

StageCompleted(state, userMessage) ==
    Out("idle", NoData, "Say 'hi' to start a new gift card.", "undefined")

Fallback(state) ==
    Out(state.stage, state.data, "Sorry, I didn't understand that. Say 'hi' to start.",
        "undefined")

\* the chain of personal-flow stage checks, askOccasion .. completed
PersonalFlow(v, state, userMessage, rnd) ==
    CASE state.stage = "askOccasion" -> StageAskOccasion(state, userMessage)
      [] state.stage = "askOccasionCustom" -> StageAskOccasionCustom(state, userMessage)
      [] state.stage = "askTemplate" -> StageAskTemplate(state, userMessage)
      [] state.stage = "askAmount" -> StageAskAmount(state, userMessage)
      [] state.stage = "askRecipientEmail" -> StageAskRecipientEmail(state, userMessage)
      [] state.stage = "askMessage" -> StageAskMessage(state, userMessage)
      [] state.stage = "confirm" -> StageConfirm(v, state, userMessage, rnd)
      [] state.stage = "completed" -> StageCompleted(state, userMessage)
      [] OTHER -> Fallback(state)

\* backend/server.js, the body of the try block after getOrCreateSession
HandleServer(state, userMessage, rnd) ==
    IF state.stage = "idle" THEN StageIdle(state, userMessage)
    ELSE PersonalFlow("server", state, userMessage, rnd)


----------------------------------------------------------------------------
(* unnamed/part_000, first handler ("v1"): greeting restart, Start button, *)
(* buyer type; business buyers are sent away.                              *)

Str_start == <<"s", "t", "a", "r", "t">>
Str_buy == <<"b", "u", "y">>
Str_1 == <<"1">>
Str_2 == <<"2">>
Str_personal == <<"p", "e", "r", "s", "o", "n", "a", "l">>
Str_self == <<"s", "e", "l", "f">>
Str_business == <<"b", "u", "s", "i", "n", "e", "s", "s">>

\* seeded fault: the restart keeps the draft
GlobalRestart_KeepsDraft(state, userMessage) ==
    Out("awaitStart", state.data, "Welcome to Amazon Pay Gift Cards", "start")

\* seeded fault: the greeting is answered as the idle branch would
GlobalRestart_AsksBuyerType(state, userMessage) ==
    Out("askBuyerType", NoData,
        "Are you buying for yourself or for business?", "buyerTypeOptions")

\* the global restart handler, taken before any stage check
GlobalRestart(state, userMessage) ==
    Out("awaitStart", NoData, "Welcome to Amazon Pay Gift Cards", "start")

\* stage idle of the business-aware handlers
StageIdleBiz(state, userMessage) ==
    IF isGreeting(userMessage)
    THEN Out("askBuyerType", state.data,
             "Are you buying for yourself or for business?", "buyerTypeOptions")
    ELSE Out(state.stage, state.data, "Please say 'hi' to begin.", "undefined")

\* the personal and the invalid branch of stage askBuyerType, the same code
\* in the three handlers
BuyerTypePersonalOrInvalid(state, text) ==
    IF text \in {Str_1, Str_personal, Str_self}
    THEN Out("askOccasion", Put(state.data, "buyerType", Str_personal),
             "For what occasion you want to buy a gift card?", "occasionOptions")
    ELSE Out(state.stage, state.data, "Please choose Personal/Self or Business.",
             "buyerTypeOptions")

StageAskBuyerTypeV1(state, userMessage) ==
    LET text == toLowerCase(trim(userMessage))
    IN  IF text \in {Str_2, Str_business}
        THEN Out("idle", NoData,
                 "For business purchases, please use our WhatsApp business flow: https://wa.me/",
                 "undefined")
        ELSE BuyerTypePersonalOrInvalid(state, text)

StageAwaitStart(state, userMessage) ==
    LET text == toLowerCase(trim(userMessage))
    IN  IF text = Str_start \/ includes(text, Str_buy)
        THEN Out("askBuyerType", state.data,
                 "Great! Let's get started. Please tell us who you're buying for:",
                 "buyerTypeOptions")
        ELSE Out(state.stage, state.data, "Tap the button to begin: Buy a Gift Card", "start")

HandleV1(state, userMessage, rnd) ==
    IF isGreeting(userMessage) THEN GlobalRestart(state, userMessage)
    ELSE IF state.stage = "idle" THEN StageIdleBiz(state, userMessage)
    ELSE IF state.stage = "askBuyerType" THEN StageAskBuyerTypeV1(state, userMessage)
    ELSE IF state.stage = "awaitStart" THEN StageAwaitStart(state, userMessage)
    ELSE PersonalFlow("v1", state, userMessage, rnd)


----------------------------------------------------------------------------
(* Helpers of the business flow *)

Str_how == <<"h", "o", "w">>
Str_leadBar == <<"l", "e", "a", "d", "|">>
Str_skip == <<"s", "k", "i", "p">>
Str_custom == <<"c", "u", "s", "t", "o", "m">>
Str_edit == <<"e", "d", "i", "t">>
Str_continue == <<"c", "o", "n", "t", "i", "n", "u", "e">>
Str_upload == <<"u", "p", "l", "o", "a", "d">>
Str_po == <<"p", "o">>
Str_po_ == <<"p", "o", "_">>
Str_dotpdf == <<".", "p", "d", "f">>
Str_paid == <<"p", "a", "i", "d">>
Str_payment == <<"p", "a", "y", "m", "e", "n", "t">>
Str_complete == <<"c", "o", "m", "p", "l", "e", "t", "e">>
Str_feedback == <<"f", "e", "e", "d", "b", "a", "c", "k">>
Str_offers == <<"o", "f", "f", "e", "r", "s">>
Str_check == <<"c", "h", "e", "c", "k">>
Str_gc == <<"g", "c">>

\* s.endsWith(p)
endsWith(s, p) == Len(s) >= Len(p) /\ SubSeq(s, Len(s) - Len(p) + 1, Len(s)) = p

\* state.data.biz.k = v (the caller has checked that data.biz is set)
PutBiz(data, k, v) == Put(data, "biz", Put(data["biz"], k, v))

\* the handler threw after leaving the session with this stage and draft
FaultAfter(stage, data) == Fault([stage |-> stage, data |-> data])

\* String(phone).replace(/\s|-/g, '')
normalizePhone(phone) == SelectSeq(phone, LAMBDA c : ~IsSpace(c) /\ c # "-")

\* /^\+?\d{10,15}$/.test(normalized)
phoneOk(normalized) ==
    LET d == IF normalized # <<>> /\ normalized[1] = "+" THEN Tail(normalized)
             ELSE normalized
    IN  Len(d) >= 10 /\ Len(d) <= 15 /\ \A i \in 1..Len(d) : IsDigit(d[i])

\* parseBatchLead of the second handler: lead|name|company|email|phone|gstin;
\* [null |-> TRUE] is its null
parseBatchLeadV2(message) ==
    IF message = <<>> \/ ~startsWith(toLowerCase(message), Str_leadBar)
    THEN [null |-> TRUE]
    ELSE [null |-> FALSE,
          name |-> trim(splitAt(message, "|", 1)),
          company |-> trim(splitAt(message, "|", 2)),
          email |-> trim(splitAt(message, "|", 3)),
          phone |-> trim(splitAt(message, "|", 4)),
          gstin |-> trim(splitAt(message, "|", 5))]

\* parseInt(text, 10) of any text: leading white space, an optional sign,
\* then the longest run of digits; NaN when there is none
RECURSIVE leadingDigits(_)
leadingDigits(s) ==
    IF s = <<>> \/ ~IsDigit(s[1]) THEN <<>> ELSE <<s[1]>> \o leadingDigits(Tail(s))

parseIntJS(text) ==
    LET t == trim(text)
        neg == t # <<>> /\ t[1] = "-"
        u == IF t # <<>> /\ t[1] \in {"-", "+"} THEN Tail(t) ELSE t
        d == leadingDigits(u)
    IN  IF d = <<>> THEN [nan |-> TRUE, value |-> 0]
        ELSE [nan |-> FALSE, value |-> IF neg THEN 0 - parseInt(d) ELSE parseInt(d)]

\* seeded fault: the discount is truncated instead of rounded
roundPercent_Truncates(gross, percent) == (gross * percent) \div 100

\* Math.round(gross * percent / 100) for a non-negative integer gross:
\* round half up
roundPercent(gross, percent) == (gross * percent + 50) \div 100

\* userMessage.match(/^check\s+gc\s*(\w+)/i) matched
RECURSIVE dropSpaces(_)
dropSpaces(s) == IF s # <<>> /\ IsSpace(s[1]) THEN dropSpaces(Tail(s)) ELSE s

isCheckGc(userMessage) ==
    LET s == toLowerCase(userMessage)
        a == SubSeq(s, Len(Str_check) + 1, Len(s))
        b == dropSpaces(a)
        c == dropSpaces(SubSeq(b, Len(Str_gc) + 1, Len(b)))
    IN  /\ startsWith(s, Str_check)
        /\ a # <<>> /\ IsSpace(a[1])
        /\ startsWith(b, Str_gc)
        /\ c # <<>> /\ IsWordChar(c[1])


----------------------------------------------------------------------------
(* unnamed/part_000, second handler ("v2"): the business flow with lead    *)
(* capture and the 2% quotation.                                            *)

HasBiz(state) == Has(state.data, "biz")

StageAskBuyerTypeV2(state, userMessage) ==
    LET text == toLowerCase(trim(userMessage))
    IN  IF text \in {Str_2, Str_business}
        THEN Out("bizWelcome", Put(state.data, "biz", [checksToday |-> 0]),
                 "Would you like to explore gift card solutions for your business?",
                 "options")
        ELSE BuyerTypePersonalOrInvalid(state, text)

StageBizWelcomeV2(state, userMessage) ==
    IF toLowerCase(trim(userMessage)) = Str_how
    THEN Out(state.stage, state.data, "We capture your requirements, ...", "options")
    ELSE Out("bizLead", state.data, "Please share your business details", "bizLeadForm")

\* rnd.requestId is the value of generateBusinessRequestId()
StageBizLeadV2(state, userMessage, rnd) ==
    LET batch == parseBatchLeadV2(userMessage)
    IN  IF batch.null
        THEN Out(state.stage, state.data, "Please share your business details", "bizLeadForm")
        ELSE IF batch.name = <<>> \/ batch.company = <<>> \/ ~isValidEmail(batch.email)
        THEN Out(state.stage, state.data,
                 "Please provide valid Name, Company and Official Email.", "bizLeadForm")
        ELSE IF ~phoneOk(normalizePhone(batch.phone))
        THEN Out(state.stage, state.data, "Please provide a valid phone number.",
                 "bizLeadForm")
        ELSE IF ~HasBiz(state) THEN Fault(state)
        ELSE WithSummary(
                 Out("bizNeedsOccasion",
                     Put(state.data, "biz",
                         [name |-> batch.name, company |-> batch.company,
                          email |-> batch.email, phone |-> normalizePhone(batch.phone),
                          gstin |-> IF toLowerCase(batch.gstin) # Str_skip
                                    THEN batch.gstin ELSE <<>>,
                          requestId |-> rnd.requestId] @@ state.data["biz"]),
                     "Thanks. Your request has been logged with Request ID", "options"),
                 [requestId |-> rnd.requestId])

StageBizNeedsOccasionV2(state, userMessage) ==
    IF ~HasBiz(state) THEN Fault(state)
    ELSE Out("bizNeedsDenomination",
             PutBiz(state.data, "occasion", toLowerCase(userMessage)),
             "Choose a denomination:", "options")

\* bizNeedsDenomination (custom = TRUE) and bizNeedsDenominationCustom
DenominationStage(state, userMessage, custom) ==
    LET amt == normalizeAmount(userMessage)
    IN  IF custom /\ toLowerCase(userMessage) = Str_custom
        THEN Out("bizNeedsDenominationCustom", state.data,
                 "Enter custom denomination:", "undefined")
        ELSE IF amt.null \/ amt.value <= 0
        THEN Out(state.stage, state.data, "Please enter a valid denomination", "undefined")
        ELSE IF ~HasBiz(state) THEN Fault(state)
        ELSE Out("bizNeedsBudget", PutBiz(state.data, "denomination", amt.value),
                 "Estimated total budget?", "undefined")

StageBizNeedsBudget(state, userMessage) ==
    LET budget == normalizeAmount(userMessage)
    IN  IF budget.null \/ budget.value <= 0
        THEN Out(state.stage, state.data, "Please enter a valid budget", "undefined")
        ELSE IF ~HasBiz(state) THEN Fault(state)
        ELSE Out("bizNeedsDelivery", PutBiz(state.data, "budget", budget.value),
                 "Preferred delivery method?", "options")

StageBizNeedsDeliveryV2(state, userMessage) ==
    IF ~HasBiz(state) THEN Fault(state)
    ELSE Out("bizDiscount", PutBiz(state.data, "delivery", toLowerCase(userMessage)),
             "We offer up to 2% discount for verified businesses.", "options")

Max(a, b) == IF a >= b THEN a ELSE b

\* the quote { count, denom, gross, discount, net } of stage bizDiscount
quoteOf(denom, budget) ==
    LET count == Max(1, budget \div denom)
        gross == denom * count
        discount == roundPercent(gross, 2)
    IN  [count |-> count, denom |-> denom, gross |-> gross,
         discount |-> discount, net |-> gross - discount]

StageBizDiscount(state, userMessage) ==
    IF ~HasBiz(state) THEN Fault(state)
    ELSE LET quote == quoteOf(state.data["biz"]["denomination"],
                              state.data["biz"]["budget"])
         IN  WithSummary(Out("bizQuote", PutBiz(state.data, "quote", quote),
                             "Based on your inputs:", "options"),
                         [gross |-> quote.gross, discount |-> quote.discount,
                          net |-> quote.net])

StageBizQuote(state, userMessage) ==
    IF toLowerCase(userMessage) = Str_edit
    THEN Out("bizNeedsOccasion", state.data,
             "Let's update your requirements. Choose an occasion:", "options")
    ELSE IF ~HasBiz(state) THEN FaultAfter("bizPI", state.data)
    ELSE Out("bizPI", state.data, "Proforma Invoice (PI) generated for Request ID",
             "downloads")

StageBizPI(state, userMessage) ==
    LET t == toLowerCase(userMessage)
    IN  IF t \in {Str_continue, Str_upload, Str_po}
        THEN Out("bizPIUpload", state.data, "Please upload your Purchase Order (PO).",
                 "uploadPO")
        ELSE IF includes(t, Str_po_) \/ endsWith(t, Str_dotpdf)
        THEN Out("bizPOValidated", state.data,
                 "PO received and validated. You can now proceed with payment.", "payment")
        ELSE Out(state.stage, state.data,
                 "Download the PI and upload your PO to proceed.", "downloads")

StageBizPIUpload(state, userMessage) ==
    Out("bizPOValidated", state.data,
        "PO received and validated. You can now proceed with payment.", "payment")

StageBizPOValidated(state, userMessage) ==
    LET t == toLowerCase(userMessage)
    IN  IF includes(t, Str_paid) \/ includes(t, Str_payment)
        THEN Out("bizIssued", state.data, "Payment received.", "download")
        ELSE Out(state.stage, state.data,
                 "Please confirm once payment is completed (type: paid).", "undefined")

StageBizIssuedV2(state, userMessage) ==
    Out("bizFinal", state.data, "Your Amazon Pay Gift Cards have been issued!", "downloads")

\* the limit of redemption checks of stage bizFinal
MaxChecksToday == 5

\* seeded fault: every check command is answered and counted
StageBizFinal_NoLimit(state, userMessage, thanks) ==
    IF ~HasBiz(state) THEN Fault(state)
    ELSE
    LET checks == IF Has(state.data["biz"], "checksToday")
                  THEN state.data["biz"]["checksToday"] ELSE 0
        data == PutBiz(state.data, "checksToday", checks)
        t == toLowerCase(trim(userMessage))
    IN  IF isCheckGc(userMessage)
        THEN Out(state.stage, PutBiz(data, "checksToday", checks + 1),
                 "Gift Card -> Unredeemed, Balance 1,000", "undefined")
        ELSE IF t = Str_feedback
        THEN Out("bizFeedback", data,
                 "We'd love your feedback. Please rate 1-5 and share any comments.",
                 "feedbackForm")
        ELSE IF t = Str_offers
        THEN Out(state.stage, data,
                 "Great! Early-bird offers for Diwali 2025 are available.", "undefined")
        ELSE Out(state.stage, data, thanks, "options")

\* stage bizFinal; thanks is the handler's closing reply
StageBizFinal(state, userMessage, thanks) ==
    IF ~HasBiz(state) THEN Fault(state)
    ELSE
    LET checks == IF Has(state.data["biz"], "checksToday")
                  THEN state.data["biz"]["checksToday"] ELSE 0
        data == PutBiz(state.data, "checksToday", checks)
        t == toLowerCase(trim(userMessage))
    IN  IF isCheckGc(userMessage)
        THEN IF checks >= MaxChecksToday
             THEN Out(state.stage, data,
                      "You've reached today's limit of 5 redemption checks.", "undefined")
             ELSE Out(state.stage, PutBiz(data, "checksToday", checks + 1),
                      "Gift Card -> Unredeemed, Balance 1,000", "undefined")
        ELSE IF t = Str_feedback
        THEN Out("bizFeedback", data,
                 "We'd love your feedback. Please rate 1-5 and share any comments.",
                 "feedbackForm")
        ELSE IF t = Str_offers
        THEN Out(state.stage, data,
                 "Great! Early-bird offers for Diwali 2025 are available.", "undefined")
        ELSE Out(state.stage, data, thanks, "options")

StageBizFeedback(state, userMessage) ==
    IF ~HasBiz(state) THEN Fault(state)
    ELSE
    LET text == trim(userMessage)
        rating == parseIntJS(text)
        feedback == IF Has(state.data["biz"], "feedback")
                    THEN state.data["biz"]["feedback"] ELSE NoData
    IN  IF ~Has(feedback, "rating") /\ ~rating.nan /\ rating.value >= 1 /\ rating.value <= 5
        THEN Out(state.stage,
                 PutBiz(state.data, "feedback", Put(feedback, "rating", rating.value)),
                 "Thanks! Please share any comments (optional).", "feedbackForm")
        ELSE Out("bizFinal",
                 PutBiz(state.data, "feedback",
                        IF Len(text) > 0 THEN Put(feedback, "comments", text) ELSE feedback),
                 "Thanks for your feedback!", "options")

HandleV2(state, userMessage, rnd) ==
    IF isGreeting(userMessage) THEN GlobalRestart(state, userMessage)
    ELSE CASE state.stage = "idle" -> StageIdleBiz(state, userMessage)
      [] state.stage = "askBuyerType" -> StageAskBuyerTypeV2(state, userMessage)
      [] state.stage = "awaitStart" -> StageAwaitStart(state, userMessage)
      [] state.stage = "bizWelcome" -> StageBizWelcomeV2(state, userMessage)
      [] state.stage = "bizLead" -> StageBizLeadV2(state, userMessage, rnd)
      [] state.stage = "bizNeedsOccasion" -> StageBizNeedsOccasionV2(state, userMessage)
      [] state.stage = "bizNeedsDenomination" -> DenominationStage(state, userMessage, TRUE)
      [] state.stage = "bizNeedsDenominationCustom" ->
            DenominationStage(state, userMessage, FALSE)
      [] state.stage = "bizNeedsBudget" -> StageBizNeedsBudget(state, userMessage)
      [] state.stage = "bizNeedsDelivery" -> StageBizNeedsDeliveryV2(state, userMessage)
      [] state.stage = "bizDiscount" -> StageBizDiscount(state, userMessage)
      [] state.stage = "bizQuote" -> StageBizQuote(state, userMessage)
      [] state.stage = "bizPI" -> StageBizPI(state, userMessage)
      [] state.stage = "bizPIUpload" -> StageBizPIUpload(state, userMessage)
      [] state.stage = "bizPOValidated" -> StageBizPOValidated(state, userMessage)
      [] state.stage = "bizIssued" -> StageBizIssuedV2(state, userMessage)
      [] state.stage = "bizFinal" ->
            StageBizFinal(state, userMessage, "Thank you for choosing Amazon Pay Gift Cards!")
      [] state.stage = "bizFeedback" -> StageBizFeedback(state, userMessage)
      [] OTHER -> PersonalFlow("v2", state, userMessage, rnd)


----------------------------------------------------------------------------
(* unnamed/part_000, third handler ("v3"): business verification, order    *)
(* lines, the 1% order summary, payment and reports.                       *)

Str_purchase == <<"p", "u", "r", "c", "h", "a", "s", "e">>
Str_reports == <<"r", "e", "p", "o", "r", "t", "s">>
Str_proceed == <<"p", "r", "o", "c", "e", "e", "d">>
Str_yes == <<"y", "e", "s">>
Str_form == <<"f", "o", "r", "m">>
Str_3 == <<"3">>
Str_understand == <<"u", "n", "d", "e", "r", "s", "t", "a", "n", "d">>
Str_neft == <<"n", "e", "f", "t">>
Str_credit == <<"c", "r", "e", "d", "i", "t">>
Str_invoices == <<"i", "n", "v", "o", "i", "c", "e", "s">>
Str_delivery == <<"d", "e", "l", "i", "v", "e", "r", "y">>
Str_query == <<"q", "u", "e", "r", "y">>
Str_exit == <<"e", "x", "i", "t">>
Str_ordersBar == <<"o", "r", "d", "e", "r", "s", "|">>
Str_orderBar == <<"o", "r", "d", "e", "r", "|">>
Str_card == <<"c", "a", "r", "d">>
Str_null == <<"n", "u", "l", "l">>

\* parseBatchLead of the third handler:
\* lead|fullName|company|phone|email|gstin|bankAccount|ifsc
parseBatchLeadV3(message) ==
    IF message = <<>> \/ ~startsWith(toLowerCase(message), Str_leadBar)
    THEN [null |-> TRUE]
    ELSE [null |-> FALSE,
          fullName |-> trim(splitAt(message, "|", 1)),
          company |-> trim(splitAt(message, "|", 2)),
          phone |-> trim(splitAt(message, "|", 3)),
          email |-> trim(splitAt(message, "|", 4)),
          gstin |-> trim(splitAt(message, "|", 5)),
          bankAccount |-> trim(splitAt(message, "|", 6)),
          ifsc |-> trim(splitAt(message, "|", 7))]

\* seeded fault: every digit of the GSTIN counts as a zero
countZeros_CountsDigits(s) == Len(SelectSeq(s, IsDigit))

\* (batch.gstin || '').match(/0/g).length
countZeros(s) == Len(SelectSeq(s, LAMBDA c : c = "0"))

\* the threshold of the mock GSTIN check
GstinZeroLimit == 4

\* seeded fault: a business buyer is sent to the welcome stage
StageAskBuyerTypeV3_ToWelcome(state, userMessage) ==
    LET text == toLowerCase(trim(userMessage))
    IN  IF text \in {Str_2, Str_business}
        THEN Out("bizWelcome", Put(state.data, "biz", [checksToday |-> 0]),
                 "How can we help you today?", "options")
        ELSE BuyerTypePersonalOrInvalid(state, text)

StageAskBuyerTypeV3(state, userMessage) ==
    LET text == toLowerCase(trim(userMessage))
    IN  IF text \in {Str_2, Str_business}
        THEN Out("bizOptions", Put(state.data, "biz", [checksToday |-> 0]),
                 "How can we help you today?", "options")
        ELSE BuyerTypePersonalOrInvalid(state, text)

StageBizWelcomeV3(state, userMessage) ==
    IF toLowerCase(trim(userMessage)) = Str_how
    THEN Out(state.stage, state.data, "We capture your requirements, ...", "options")
    ELSE Out("bizOptions", state.data, "How can we help you today?", "options")

StageBizOptions(state, userMessage) ==
    LET text == toLowerCase(trim(userMessage))
    IN  IF text \in {Str_1, Str_purchase}
        THEN Out("bizVerification", state.data,
                 "Great! To get you started, please share a few quick details.",
                 "bizVerificationForm")
        ELSE IF text \in {Str_2, Str_reports}
        THEN Out("bizReports", state.data, "Welcome to Reports & Queries.", "options")
        ELSE Out(state.stage, state.data, "How can we help you today?", "options")

\* stage bizLead of the third handler: the batch has no field `name`, so
\* !batch.name holds for every batch
StageBizLeadV3(state, userMessage) ==
    IF parseBatchLeadV3(userMessage).null
    THEN Out(state.stage, state.data, "Please share your business details", "bizLeadForm")
    ELSE Out(state.stage, state.data,
             "Please provide valid Name, Company and Official Email.", "bizLeadForm")

StageBizVerification(state, userMessage, rnd) ==
    LET batch == parseBatchLeadV3(userMessage)
    IN  IF toLowerCase(userMessage) = Str_proceed \/ batch.null
        THEN Out(state.stage, state.data, "", "bizVerificationForm")
        ELSE IF \/ batch.fullName = <<>> \/ batch.company = <<>>
                \/ ~isValidEmail(batch.email) \/ batch.phone = <<>>
                \/ batch.gstin = <<>> \/ batch.bankAccount = <<>> \/ batch.ifsc = <<>>
        THEN Out(state.stage, state.data,
                 "Please provide valid Name, Company, Phone, Email, GSTIN, Bank Account, and IFSC.",
                 "bizVerificationForm")
        ELSE IF ~phoneOk(normalizePhone(batch.phone))
        THEN Out(state.stage, state.data, "Please provide a valid phone number.",
                 "bizVerificationForm")
        ELSE IF ~HasBiz(state) THEN Fault(state)
        ELSE LET stored ==
                   Put(state.data, "biz",
                       [name |-> batch.fullName, company |-> batch.company,
                        phone |-> normalizePhone(batch.phone), email |-> batch.email,
                        gstin |-> batch.gstin, bankAccount |-> batch.bankAccount,
                        ifsc |-> batch.ifsc, requestId |-> rnd.requestId]
                       @@ state.data["biz"])
             IN  IF countZeros(batch.gstin) >= GstinZeroLimit
                 THEN Out(state.stage, stored,
                          "Verification Failed: Account & GST must belong to the same company. Please retry.",
                          "bizVerificationForm")
                 ELSE Out("bizNeedsOccasion",
                          Put(stored, "biz",
                              [verified |-> TRUE, discountEligible |-> TRUE,
                               discountPercent |-> 1] @@ stored["biz"]),
                          "Verification Complete! You qualify for 1% discount.", "options")

StageBizNeedsOccasionV3(state, userMessage) ==
    IF toLowerCase(userMessage) = Str_custom
    THEN Out("bizNeedsOccasionCustom", state.data,
             "Please enter your custom message (up to 60 characters):", "undefined")
    ELSE IF ~HasBiz(state) THEN Fault(state)
    ELSE Out("bizNeedsOrderDetails", PutBiz(state.data, "occasion", userMessage),
             "Please enter denomination and quantity.", "bizOrderForm")

\* the length limit of a custom business occasion
MaxCustomOccasion == 60

StageBizNeedsOccasionCustom(state, userMessage) ==
    IF userMessage = <<>> \/ Len(userMessage) > MaxCustomOccasion
    THEN Out(state.stage, state.data,
             "Please enter a custom message (up to 60 characters):", "undefined")
    ELSE IF ~HasBiz(state) THEN Fault(state)
    ELSE Out("bizNeedsOrderDetails", PutBiz(state.data, "occasion", userMessage),
             "Please enter denomination and quantity.", "undefined")


----------------------------------------------------------------------------
(* Order details of the third handler *)

\* parseInt(x) || 0
parseIntOr0(text) == LET n == parseIntJS(text) IN IF n.nan THEN 0 ELSE n.value

Json_denomination == <<"{", "\"", "d", "e", "n", "o", "m", "i", "n", "a", "t", "i", "o", "n", "\"", ":", "\"">>
Json_count == <<"\"", ",", "\"", "c", "o", "u", "n", "t", "\"", ":", "\"">>

\* the text up to the next double quote
RECURSIVE upToQuote(_)
upToQuote(s) ==
    IF s = <<>> \/ s[1] = "\"" THEN <<>> ELSE <<s[1]>> \o upToQuote(Tail(s))

\* JSON.parse of the order lines, for the texts the order form produces
\* ([{"denomination":"..","count":".."},..]) and for null, a number and a
\* string literal; every other text is reported as a SyntaxError.
\* kind: "array" (orders), "string" (length), "number", "null", "error"
RECURSIVE parseOrderObjects(_)
parseOrderObjects(s) ==
    IF ~startsWith(s, Json_denomination) THEN [ok |-> FALSE, orders |-> <<>>]
    ELSE
    LET a == SubSeq(s, Len(Json_denomination) + 1, Len(s))
        denomination == upToQuote(a)
        b == SubSeq(a, Len(denomination) + 1, Len(a))
    IN  IF ~startsWith(b, Json_count) \/ "\\" \in Range(denomination)
        THEN [ok |-> FALSE, orders |-> <<>>]
        ELSE
        LET c == SubSeq(b, Len(Json_count) + 1, Len(b))
            count == upToQuote(c)
            d == SubSeq(c, Len(count) + 1, Len(c))
            order == [denomination |-> denomination, count |-> count]
        IN  IF "\\" \in Range(count) THEN [ok |-> FALSE, orders |-> <<>>]
            ELSE IF d = <<"\"", "}", "]">> THEN [ok |-> TRUE, orders |-> <<order>>]
            ELSE IF startsWith(d, <<"\"", "}", ",">>)
            THEN LET rest == parseOrderObjects(SubSeq(d, 4, Len(d)))
                 IN  [ok |-> rest.ok, orders |-> <<order>> \o rest.orders]
            ELSE [ok |-> FALSE, orders |-> <<>>]

jsonParse(text) ==
    IF text = Str_null THEN [kind |-> "null"]
    ELSE IF text # <<>> /\ (\A i \in 1..Len(text) : IsDigit(text[i]))
            /\ (Len(text) = 1 \/ text[1] # "0")
    THEN [kind |-> "number", value |-> parseInt(text)]
    ELSE IF Len(text) >= 2 /\ text[1] = "\"" /\ text[Len(text)] = "\""
            /\ (\A i \in 2..(Len(text) - 1) : text[i] \notin {"\"", "\\"})
    THEN [kind |-> "string", length |-> Len(text) - 2]
    ELSE IF text = <<"[", "]">> THEN [kind |-> "array", orders |-> <<>>, length |-> 0]
    ELSE IF text # <<>> /\ text[1] = "[" /\ parseOrderObjects(Tail(text)).ok
    THEN [kind |-> "array", orders |-> parseOrderObjects(Tail(text)).orders,
          length |-> Len(parseOrderObjects(Tail(text)).orders)]
    ELSE [kind |-> "error"]

\* NaN as a stored number: a value no parseInt of a message yields
NaN == 0 - 2147483647

\* orders.reduce((sum, order) => sum + parseInt(order.count), 0);
\* [nan |-> TRUE] is NaN
RECURSIVE sumCounts(_)
sumCounts(orders) ==
    IF orders = <<>> THEN [nan |-> FALSE, value |-> 0]
    ELSE LET n == parseIntJS(orders[1].count)
             rest == sumCounts(Tail(orders))
         IN  IF n.nan \/ rest.nan THEN [nan |-> TRUE, value |-> 0]
             ELSE [nan |-> FALSE, value |-> n.value + rest.value]

\* text.match(/(\d+)\s*cards?/): the first run of digits that is followed by
\* optional white space and "card"
quantityMatch(text) ==
    LET starts == {i \in 1..Len(text) :
                     /\ IsDigit(text[i])
                     /\ startsWith(dropSpaces(SubSeq(text, i + Len(leadingDigits(
                                SubSeq(text, i, Len(text)))), Len(text))), Str_card)}
    IN  IF starts = {} THEN [null |-> TRUE, group |-> <<>>]
        ELSE LET i == CHOOSE i \in starts : \A j \in starts : i <= j
             IN  [null |-> FALSE, group |-> leadingDigits(SubSeq(text, i, Len(text)))]

\* \d+(?:,\d+)* at the head of s, as matched greedily
RECURSIVE digitGroups(_)
digitGroups(s) ==
    LET d == leadingDigits(s)
        r == SubSeq(s, Len(d) + 1, Len(s))
    IN  IF d = <<>> THEN <<>>
        ELSE IF Len(r) >= 2 /\ r[1] = "," /\ IsDigit(r[2])
        THEN d \o <<",">> \o digitGroups(Tail(r))
        ELSE d

\* text.match(/<U+201A><U+00C7><U+03C0>?(\d+(?:,\d+)*)/) as the pattern
\* stands in part_000: the characters U+201A and U+00C7, an optional U+03C0,
\* then the digit groups
amountMatch(text) ==
    LET starts == {i \in 1..(Len(text) - 2) :
                     /\ text[i] = "U+201A" /\ text[i + 1] = "U+00C7"
                     /\ \/ IsDigit(text[i + 2])
                        \/ (i + 3 <= Len(text) /\ text[i + 2] = "U+03C0" /\ IsDigit(text[i + 3]))}
    IN  IF starts = {} THEN [null |-> TRUE, group |-> <<>>]
        ELSE LET i == CHOOSE i \in starts : \A j \in starts : i <= j
                 k == IF IsDigit(text[i + 2]) THEN i + 2 ELSE i + 3
             IN  [null |-> FALSE, group |-> digitGroups(SubSeq(text, k, Len(text)))]

\* parseInt(amountMatch[1].replace(/,/g, ''))
groupValue(group) == parseInt(SelectSeq(group, IsDigit))


----------------------------------------------------------------------------
(* Stages of the third handler from the order details on *)

\* biz.orders: an array of order lines, or (JSON.parse gave a string) a string
OrderArray(items) == [isArray |-> TRUE, items |-> items, length |-> Len(items)]
OrderString(length) == [isArray |-> FALSE, items |-> <<>>, length |-> length]

DeliveryPrompt(stage, data, ui) ==
    Out(stage, data, "Confirm your delivery email:", ui)

\* the branch of 'orders|<json>|<total>'; a TypeError or SyntaxError inside
\* its try block ends in the re-prompt, with what was assigned before it
OrdersBranch(state, userMessage) ==
    LET parsed == jsonParse(splitAt(userMessage, "|", 1))
        total == parseIntOr0(splitAt(userMessage, "|", 2))
        retry(data) == Out(state.stage, data, "Please enter valid order details",
                           "bizOrderForm")
    IN  IF parsed.kind \in {"error", "null", "number"} THEN retry(state.data)
        ELSE IF ~(parsed.length > 0 /\ total > 0) \/ ~HasBiz(state)
        THEN retry(state.data)
        ELSE IF parsed.kind = "string"
        THEN retry(PutBiz(PutBiz(state.data, "orders", OrderString(parsed.length)),
                          "totalAmount", total))
        ELSE LET quantity == sumCounts(parsed.orders)
             IN  DeliveryPrompt("bizNeedsDelivery",
                     Put(state.data, "biz",
                         [orders |-> OrderArray(parsed.orders), totalAmount |-> total,
                          quantity |-> IF quantity.nan THEN NaN ELSE quantity.value]
                         @@ state.data["biz"]),
                     "bizDeliveryForm")

\* the branch of 'order|<quantity>|<denomination>'; withOrders: it also
\* replaces biz.orders (stage bizNeedsOrderDetails) or not (bizManualRequirements)
LegacyOrderFields(quantity, denomination, withOrders) ==
    IF withOrders
    THEN [orders |-> OrderArray(<<[denomination |-> intToString(denomination),
                                   count |-> intToString(quantity)]>>),
          quantity |-> quantity, denomination |-> denomination,
          totalAmount |-> quantity * denomination]
    ELSE [quantity |-> quantity, denomination |-> denomination,
          totalAmount |-> quantity * denomination]

StageBizNeedsOrderDetails(state, userMessage) ==
    LET text == toLowerCase(userMessage)
        am == amountMatch(text)
        qm == quantityMatch(text)
        quantity == parseIntOr0(splitAt(userMessage, "|", 1))
        denomination == parseIntOr0(splitAt(userMessage, "|", 2))
    IN  IF startsWith(userMessage, Str_ordersBar) THEN OrdersBranch(state, userMessage)
        ELSE IF startsWith(userMessage, Str_orderBar)
        THEN IF quantity > 0 /\ denomination > 0
             THEN IF ~HasBiz(state) THEN Fault(state)
                  ELSE DeliveryPrompt("bizNeedsDelivery",
                           Put(state.data, "biz",
                               LegacyOrderFields(quantity, denomination, TRUE)
                               @@ state.data["biz"]),
                           "bizDeliveryForm")
             ELSE Out(state.stage, state.data,
                      "Please enter valid quantity and denomination", "bizOrderForm")
        ELSE IF am.null
        THEN Out(state.stage, state.data,
                 "Please provide order details in the format:", "bizOrderForm")
        ELSE IF ~HasBiz(state) THEN Fault(state)
        ELSE IF ~qm.null
        THEN DeliveryPrompt("bizNeedsDelivery",
                 Put(state.data, "biz",
                     LegacyOrderFields(parseInt(qm.group), groupValue(am.group), FALSE)
                     @@ state.data["biz"]),
                 "options")
        ELSE DeliveryPrompt("bizNeedsDelivery",
                 Put(state.data, "biz",
                     [budget |-> groupValue(am.group), denomination |-> 1000,
                      quantity |-> groupValue(am.group) \div 1000,
                      totalAmount |-> groupValue(am.group)] @@ state.data["biz"]),
                 "options")

\* the discount and the net amount of the order summary: 1% of totalAmount
\* when the business is discount eligible
orderSummaryOf(biz) ==
    LET eligible == Has(biz, "discountEligible") /\ biz["discountEligible"]
        discount == IF eligible THEN roundPercent(biz["totalAmount"], 1) ELSE 0
    IN  IF ~Has(biz, "totalAmount") THEN NoData
        ELSE [gross |-> biz["totalAmount"], discount |-> discount,
              net |-> biz["totalAmount"] - discount]

\* the reply with the order summary; generateOrderSummary throws on orders
\* that are no array, and on a missing totalAmount when there are no orders
SummaryReply(stage, data, reply) ==
    LET biz == data["biz"]
        lines == Has(biz, "orders") /\ biz["orders"].length > 0
    IN  IF (lines /\ ~biz["orders"].isArray) \/ (~lines /\ ~Has(biz, "totalAmount"))
        THEN FaultAfter(stage, data)
        ELSE WithSummary(Out(stage, data, reply, "options"), orderSummaryOf(biz))

StageBizNeedsDeliveryV3(state, userMessage) ==
    LET text == toLowerCase(userMessage)
    IN  IF text = Str_confirm
        THEN IF ~HasBiz(state) THEN Fault(state)
             ELSE SummaryReply("bizOrderSummary",
                      IF Has(state.data["biz"], "email")
                      THEN PutBiz(state.data, "deliveryEmail", state.data["biz"]["email"])
                      ELSE state.data,
                      "Here's a quick summary of your request:")
        ELSE IF text = Str_edit
        THEN IF ~HasBiz(state) THEN Fault(state)
             ELSE Out(state.stage, state.data, "Please enter your delivery email:",
                      "bizDeliveryForm")
        ELSE IF isValidEmail(userMessage)
        THEN IF ~HasBiz(state) THEN Fault(state)
             ELSE SummaryReply("bizOrderSummary",
                      PutBiz(state.data, "deliveryEmail", userMessage),
                      "Here's a quick summary of your request:")
        ELSE IF ~HasBiz(state) THEN Fault(state)
        ELSE DeliveryPrompt(state.stage, state.data, "options")

StageBizOrderSummary(state, userMessage) ==
    LET text == toLowerCase(userMessage)
    IN  IF text \in {Str_1, Str_yes}
        THEN IF ~HasBiz(state) THEN FaultAfter("bizPaymentInfo", state.data)
             ELSE WithSummary(Out("bizPaymentInfo", state.data,
                                  "PI generated -> Request ID:", "options"),
                              orderSummaryOf(state.data["biz"]))
        ELSE IF text \in {Str_2, Str_edit}
        THEN Out("bizNeedsOccasion", state.data,
                 "Let's update your requirements. Choose an occasion:", "options")
        ELSE IF text \in {Str_3, Str_form}
        THEN Out("bizManualRequirements", state.data,
                 "Please enter your requirements manually:", "bizOrderForm")
        ELSE Out(state.stage, state.data, "Please choose:", "options")

StageBizManualRequirements(state, userMessage) ==
    LET text == toLowerCase(userMessage)
        am == amountMatch(text)
        qm == quantityMatch(text)
        quantity == parseIntOr0(splitAt(userMessage, "|", 1))
        denomination == parseIntOr0(splitAt(userMessage, "|", 2))
    IN  IF startsWith(userMessage, Str_orderBar)
        THEN IF quantity > 0 /\ denomination > 0
             THEN IF ~HasBiz(state) THEN Fault(state)
                  ELSE SummaryReply("bizOrderSummary",
                           Put(state.data, "biz",
                               LegacyOrderFields(quantity, denomination, FALSE)
                               @@ state.data["biz"]),
                           "Here's your updated order summary:")
             ELSE Out(state.stage, state.data,
                      "Please enter valid quantity and denomination", "bizOrderForm")
        ELSE IF ~am.null /\ ~qm.null
        THEN IF ~HasBiz(state) THEN Fault(state)
             ELSE SummaryReply("bizOrderSummary",
                      Put(state.data, "biz",
                          LegacyOrderFields(parseInt(qm.group), groupValue(am.group), FALSE)
                          @@ state.data["biz"]),
                      "Here's your updated order summary:")
        ELSE Out(state.stage, state.data,
                 "Please provide order details in the format: ... or use the form",
                 "bizOrderForm")

StageBizPaymentInfo(state, userMessage) ==
    IF toLowerCase(userMessage) = Str_proceed
    THEN Out("bizPaymentOptions", state.data,
             "Before completing your payment, please keep in mind:", "options")
    ELSE IF ~HasBiz(state) THEN Fault(state)
    ELSE Out(state.stage, state.data, "PI generated -> Request ID:", "options")

StageBizPaymentOptions(state, userMessage) ==
    IF toLowerCase(userMessage) = Str_understand
    THEN Out("bizPaymentMethod", state.data, "Payment Options (quick replies):", "options")
    ELSE Out(state.stage, state.data,
             "Before completing your payment, please keep in mind:", "options")

StageBizPaymentMethod(state, userMessage) ==
    IF toLowerCase(userMessage) \in {Str_neft, Str_credit}
    THEN Out("bizPaymentProcessing", state.data, "You selected:", "payment")
    ELSE Out(state.stage, state.data, "Payment Options (quick replies):", "options")

StageBizPaymentProcessing(state, userMessage) ==
    LET t == toLowerCase(userMessage)
    IN  IF includes(t, Str_paid) \/ includes(t, Str_payment) \/ includes(t, Str_complete)
        THEN Out("bizIssued", state.data, "Payment received.", "download")
        ELSE Out(state.stage, state.data,
                 "Please confirm once payment is completed (type: paid).", "undefined")

StageBizIssuedV3(state, userMessage) ==
    IF ~HasBiz(state) THEN FaultAfter("bizFinal", state.data)
    ELSE Out("bizFinal", state.data, "Your Amazon Pay Gift Cards are ready!", "downloads")

StageBizReports(state, userMessage) ==
    LET text == toLowerCase(userMessage)
    IN  IF text \in {Str_1, Str_invoices}
        THEN Out("bizReportInvoices", state.data,
                 "Please enter your Request ID (e.g., GC2025-7F2A).", "undefined")
        ELSE IF text \in {Str_2, Str_delivery}
        THEN Out("bizReportDelivery", state.data,
                 "Please enter your Request ID to fetch the delivery report.", "undefined")
        ELSE IF text \in {Str_3, Str_query}
        THEN Out("bizReportQuery", state.data, "Please type your query below", "undefined")
        ELSE Out(state.stage, state.data, "Welcome to Reports & Queries.", "options")

\* bizReportInvoices and bizReportDelivery
StageBizReportDownload(state, userMessage, done, again) ==
    IF trim(userMessage) # <<>>
    THEN IF ~HasBiz(state) THEN FaultAfter("bizReportComplete", state.data)
         ELSE Out("bizReportComplete", state.data, done, "download")
    ELSE Out(state.stage, state.data, again, "undefined")

StageBizReportQuery(state, userMessage) ==
    IF trim(userMessage) # <<>>
    THEN Out("bizReportComplete", state.data, "Thanks! Your query has been logged.",
             "undefined")
    ELSE Out(state.stage, state.data, "Please type your query below", "undefined")

\* seeded fault: the return to the purchase options clears the draft
StageBizReportComplete_ClearsDraft(state, userMessage) ==
    LET text == toLowerCase(userMessage)
    IN  IF text \in {Str_1, Str_purchase}
        THEN Out("bizOptions", NoData, "How can we help you today?", "options")
        ELSE IF text \in {Str_2, Str_exit}
        THEN Out("idle", NoData,
                 "Thank you for using Amazon Pay Gift Cards! Say \"hi\" to start again.",
                 "undefined")
        ELSE Out(state.stage, state.data, "That's it for now! Would you like to go back to:",
                 "options")

StageBizReportComplete(state, userMessage) ==
    LET text == toLowerCase(userMessage)
    IN  IF text \in {Str_1, Str_purchase}
        THEN Out("bizOptions", state.data, "How can we help you today?", "options")
        ELSE IF text \in {Str_2, Str_exit}
        THEN Out("idle", NoData,
                 "Thank you for using Amazon Pay Gift Cards! Say \"hi\" to start again.",
                 "undefined")
        ELSE Out(state.stage, state.data, "That's it for now! Would you like to go back to:",
                 "options")

HandleV3(state, userMessage, rnd) ==
    IF isGreeting(userMessage) THEN GlobalRestart(state, userMessage)
    ELSE CASE state.stage = "idle" -> StageIdleBiz(state, userMessage)
      [] state.stage = "askBuyerType" -> StageAskBuyerTypeV3(state, userMessage)
      [] state.stage = "awaitStart" -> StageAwaitStart(state, userMessage)
      [] state.stage = "bizWelcome" -> StageBizWelcomeV3(state, userMessage)
      [] state.stage = "bizOptions" -> StageBizOptions(state, userMessage)
      [] state.stage = "bizLead" -> StageBizLeadV3(state, userMessage)
      [] state.stage = "bizVerification" -> StageBizVerification(state, userMessage, rnd)
      [] state.stage = "bizNeedsOccasion" -> StageBizNeedsOccasionV3(state, userMessage)
      [] state.stage = "bizNeedsOccasionCustom" ->
            StageBizNeedsOccasionCustom(state, userMessage)
      [] state.stage = "bizNeedsOrderDetails" -> StageBizNeedsOrderDetails(state, userMessage)
      [] state.stage = "bizNeedsDelivery" -> StageBizNeedsDeliveryV3(state, userMessage)
      [] state.stage = "bizOrderSummary" -> StageBizOrderSummary(state, userMessage)
      [] state.stage = "bizManualRequirements" ->
            StageBizManualRequirements(state, userMessage)
      [] state.stage = "bizNeedsDenomination" -> DenominationStage(state, userMessage, TRUE)
      [] state.stage = "bizNeedsDenominationCustom" ->
            DenominationStage(state, userMessage, FALSE)
      [] state.stage = "bizNeedsBudget" -> StageBizNeedsBudget(state, userMessage)
      [] state.stage = "bizDiscount" -> StageBizDiscount(state, userMessage)
      [] state.stage = "bizQuote" -> StageBizQuote(state, userMessage)
      [] state.stage = "bizPaymentInfo" -> StageBizPaymentInfo(state, userMessage)
      [] state.stage = "bizPaymentOptions" -> StageBizPaymentOptions(state, userMessage)
      [] state.stage = "bizPaymentMethod" -> StageBizPaymentMethod(state, userMessage)
      [] state.stage = "bizPaymentProcessing" ->
            StageBizPaymentProcessing(state, userMessage)
      [] state.stage = "bizIssued" -> StageBizIssuedV3(state, userMessage)
      [] state.stage = "bizReports" -> StageBizReports(state, userMessage)
      [] state.stage = "bizReportInvoices" ->
            StageBizReportDownload(state, userMessage, "Invoice for Request ID",
                                   "Please enter your **Request ID** (e.g., GC2025-7F2A).")
      [] state.stage = "bizReportDelivery" ->
            StageBizReportDownload(state, userMessage, "Delivery Report for Request ID",
                "Please enter your **Request ID** to fetch the delivery report.")
      [] state.stage = "bizReportQuery" -> StageBizReportQuery(state, userMessage)
      [] state.stage = "bizReportComplete" -> StageBizReportComplete(state, userMessage)
      [] state.stage = "bizFinal" -> StageBizFinal(state, userMessage, "Order complete!")
      [] state.stage = "bizFeedback" -> StageBizFeedback(state, userMessage)
      [] OTHER -> PersonalFlow("v3", state, userMessage, rnd)


----------------------------------------------------------------------------
(* The environment: the messages a client sends.                            *)
(*                                                                          *)
(* Each stage has a menu: the empty message, a greeting, and the inputs the *)
(* stage accepts and rejects. Text that a stage stores verbatim is sampled  *)
(* by these few messages.                                                   *)

Core ==
  {
    <<>>,
    <<"h", "i">>,
    <<"c", "a", "n", "c", "e", "l">>
  }

BizCore ==
  {
    <<>>,
    <<"h", "i">>
  }

\* an amount of as many digits as InfinityFrom, all of them 9
HugeAmount == [i \in 1..Len(InfinityFrom) |-> "9"]

Inputs_idle ==
  Core \cup
  {
    <<" ", "H", "e", "l", "l", "o", " ">>,
    <<"t", "h", "i", "s">>,
    <<"5", "0", "0">>
  }

Inputs_awaitStart ==
  Core \cup
  {
    <<"s", "t", "a", "r", "t">>,
    <<"B", "u", "y", " ", "n", "o", "w">>
  }

Inputs_askBuyerType ==
  Core \cup
  {
    <<"1">>,
    <<"2">>,
    <<"p", "e", "r", "s", "o", "n", "a", "l">>,
    <<"B", "u", "s", "i", "n", "e", "s", "s">>
  }

Inputs_askOccasion ==
  {
    <<>>,
    <<"h", "i">>,
    <<"D", "i", "w", "a", "l", "i">>,
    <<"t", "h", "a", "n", "k", "y", "o", "u">>,
    <<"o", "t", "h", "e", "r">>,
    <<"E", "i", "d">>
  }

Inputs_askOccasionCustom ==
  {
    <<>>,
    <<"h", "i">>,
    <<"o", "t", "h", "e", "r">>
  }

Inputs_askTemplate ==
  Core \cup
  {
    <<"t", "e", "m", "p", "l", "a", "t", "e", ":", "t", "1">>,
    <<"T", "2">>,
    <<"t", "e", "m", "p", "l", "a", "t", "e", ":">>,
    <<"t", "e", "m", "p", "l", "a", "t", "e", ":", "x", "y", "z">>,
    <<"t">>
  }

Inputs_askAmount ==
  Core \cup
  {
    <<"5", "0", "0">>,
    <<"U+20B9", "5", "0", "0">>,
    <<"1", ",", "0", "0", "0">>,
    <<"0">>,
    <<"a", "b", "c">>,
    HugeAmount
  }

Inputs_askRecipientEmail ==
  Core \cup
  {
    <<"h", "e", "l", "l", "o", "@", "a", ".", "c", "o">>,
    <<"a", "@", "b", ".", "c", "o">>,
    <<"a", "@", "b">>,
    <<"a", " ", "b", "@", "c", ".", "d", "e">>
  }

Inputs_askMessage ==
  {
    <<>>,
    <<"h", "i">>,
    <<"s", "k", "i", "p">>,
    <<"h", "i", " ", "m", "o", "m">>
  }

Inputs_confirm ==
  Core \cup
  {
    <<"c", "o", "n", "f", "i", "r", "m">>,
    <<" ", "C", "o", "n", "f", "i", "r", "m">>,
    <<"C", "A", "N", "C", "E", "L">>,
    <<"c", "o", "n", "f", "i", "r", "m", " ", "i", "t">>
  }

Inputs_completed ==
  Core \cup
  {
    <<"c", "o", "n", "f", "i", "r", "m">>,
    <<"5", "0", "0">>
  }

Inputs_bizWelcome ==
  BizCore \cup
  {
    <<"h", "o", "w">>,
    <<"y", "e", "s">>
  }

Inputs_bizLeadV2 ==
  BizCore \cup
  {
    <<"l", "e", "a", "d", "|", "A", "n", "n", " ", "L", "e", "e", "|", "A", "c", "m", "e", "|", "a", "n", "n", "@", "a", "c", "m", "e", ".", "c", "o", "|", "9", "8", "7", "6", "5", " ", "4", "3", "2", "1", "0", "|", "s", "k", "i", "p">>,
    <<"l", "e", "a", "d", "|", "A", "n", "n", "|", "A", "c", "m", "e", "|", "a", "n", "n", "@", "a", "c", "m", "e", ".", "c", "o", "|", "1", "2", "3", "4", "5", "|", "G", "1">>,
    <<"l", "e", "a", "d", "|", "|", "A", "c", "m", "e", "|", "a", "n", "n", "@", "a", "c", "m", "e", ".", "c", "o", "|", "9", "8", "7", "6", "5", "4", "3", "2", "1", "0", "|", "G", "1">>
  }

Inputs_bizLeadV3 ==
  BizCore \cup
  {
    <<"l", "e", "a", "d", "|", "A", "n", "n", "|", "A", "c", "m", "e", "|", "9", "8", "7", "6", "5", "4", "3", "2", "1", "0", "|", "a", "n", "n", "@", "a", "c", "m", "e", ".", "c", "o", "|", "2", "7", "A", "B", "0", "C", "0", "0", "|", "1", "2", "3", "|", "H", "D", "1">>
  }

Inputs_bizOptions ==
  BizCore \cup
  {
    <<"1">>,
    <<"2">>,
    <<"p", "u", "r", "c", "h", "a", "s", "e">>
  }

Inputs_bizVerification ==
  BizCore \cup
  {
    <<"p", "r", "o", "c", "e", "e", "d">>,
    <<"l", "e", "a", "d", "|", "A", "n", "n", "|", "A", "c", "m", "e", "|", "9", "8", "7", "6", "5", "4", "3", "2", "1", "0", "|", "a", "n", "n", "@", "a", "c", "m", "e", ".", "c", "o", "|", "2", "7", "A", "B", "0", "C", "0", "0", "|", "1", "2", "3", "|", "H", "D", "1">>,
    <<"l", "e", "a", "d", "|", "A", "n", "n", "|", "A", "c", "m", "e", "|", "9", "8", "7", "6", "5", "4", "3", "2", "1", "0", "|", "a", "n", "n", "@", "a", "c", "m", "e", ".", "c", "o", "|", "2", "7", "A", "0", "0", "0", "0", "Z", "|", "1", "2", "3", "|", "H", "D", "1">>,
    <<"l", "e", "a", "d", "|", "A", "n", "n", "|", "A", "c", "m", "e", "|", "1", "2", "3", "4", "5", "|", "a", "n", "n", "@", "a", "c", "m", "e", ".", "c", "o", "|", "2", "7", "A", "0", "0", "0", "0", "Z", "|", "1", "2", "3", "|", "H", "D", "1">>
  }

Inputs_bizNeedsOccasionV2 ==
  BizCore \cup
  {
    <<"R", "e", "w", "a", "r", "d", "s">>
  }

Inputs_bizNeedsOccasionV3 ==
  BizCore \cup
  {
    <<"c", "u", "s", "t", "o", "m">>,
    <<"T", "h", "a", "n", "k", " ", "Y", "o", "u">>
  }

Inputs_bizNeedsOccasionCustom ==
  BizCore \cup
  {
    <<"W", "e", "l", "l", " ", "d", "o", "n", "e">>
  }

Inputs_bizNeedsOrderDetails ==
  BizCore \cup
  {
    <<"o", "r", "d", "e", "r", "s", "|", "[", "{", "\"", "d", "e", "n", "o", "m", "i", "n", "a", "t", "i", "o", "n", "\"", ":", "\"", "1", "0", "0", "\"", ",", "\"", "c", "o", "u", "n", "t", "\"", ":", "\"", "5", "\"", "}", "]", "|", "5", "0", "0">>,
    <<"o", "r", "d", "e", "r", "s", "|", "\"", "a", "b", "\"", "|", "5">>,
    <<"o", "r", "d", "e", "r", "s", "|", "[">>,
    <<"o", "r", "d", "e", "r", "|", "5", "|", "1", "0", "0">>,
    <<"1", "5", "0", " ", "c", "a", "r", "d", "s", " ", "x", " ", "1", "0", "0">>
  }

Inputs_bizNeedsDeliveryV2 ==
  BizCore \cup
  {
    <<"b", "u", "l", "k">>
  }

Inputs_bizNeedsDeliveryV3 ==
  BizCore \cup
  {
    <<"c", "o", "n", "f", "i", "r", "m">>,
    <<"e", "d", "i", "t">>,
    <<"o", "p", "s", "@", "a", "c", "m", "e", ".", "c", "o">>
  }

Inputs_bizOrderSummary ==
  BizCore \cup
  {
    <<"1">>,
    <<"2">>,
    <<"3">>
  }

Inputs_bizManualRequirements ==
  BizCore \cup
  {
    <<"o", "r", "d", "e", "r", "|", "3", "|", "2", "0", "0">>,
    <<"o", "r", "d", "e", "r", "|", "x", "|", "1">>,
    <<"3", " ", "c", "a", "r", "d", "s", " ", "x", " ", "2", "0", "0">>
  }

Inputs_bizNeedsDenomination ==
  BizCore \cup
  {
    <<"c", "u", "s", "t", "o", "m">>,
    <<"1", "0", "0", "0">>,
    <<"0">>
  }

Inputs_bizNeedsDenominationCustom ==
  BizCore \cup
  {
    <<"2", "5", "0">>
  }

Inputs_bizNeedsBudget ==
  BizCore \cup
  {
    <<"5", "0", "0", "0">>,
    <<"3", "0", "0">>
  }

Inputs_bizDiscount ==
  BizCore \cup
  {
    <<"o", "k">>
  }

Inputs_bizQuote ==
  BizCore \cup
  {
    <<"e", "d", "i", "t">>,
    <<"y", "e", "s">>
  }

Inputs_bizPI ==
  BizCore \cup
  {
    <<"c", "o", "n", "t", "i", "n", "u", "e">>,
    <<"p", "o", "_", "1", ".", "p", "d", "f">>
  }

Inputs_bizPIUpload ==
  BizCore \cup
  {
    <<"p", "o", "_", "1", ".", "p", "d", "f">>
  }

Inputs_bizPOValidated ==
  BizCore \cup
  {
    <<"p", "a", "i", "d">>
  }

Inputs_bizPaymentInfo ==
  BizCore \cup
  {
    <<"p", "r", "o", "c", "e", "e", "d">>
  }

Inputs_bizPaymentOptions ==
  BizCore \cup
  {
    <<"u", "n", "d", "e", "r", "s", "t", "a", "n", "d">>
  }

Inputs_bizPaymentMethod ==
  BizCore \cup
  {
    <<"n", "e", "f", "t">>,
    <<"u", "p", "i">>
  }

Inputs_bizPaymentProcessing ==
  BizCore \cup
  {
    <<"p", "a", "i", "d">>
  }

Inputs_bizIssued ==
  BizCore \cup
  {
    <<"o", "k">>
  }

Inputs_bizReports ==
  BizCore \cup
  {
    <<"1">>,
    <<"2">>,
    <<"3">>
  }

Inputs_bizReportRequest ==
  BizCore \cup
  {
    <<"G", "C", "2", "0", "2", "5", "-", "7", "F", "2", "A">>
  }

Inputs_bizReportComplete ==
  BizCore \cup
  {
    <<"1">>,
    <<"2">>
  }

Inputs_bizFinal ==
  BizCore \cup
  {
    <<"c", "h", "e", "c", "k", " ", "g", "c", " ", "A", "1">>,
    <<"f", "e", "e", "d", "b", "a", "c", "k">>,
    <<"o", "f", "f", "e", "r", "s">>
  }

Inputs_bizFeedback ==
  BizCore \cup
  {
    <<"5">>,
    <<"g", "r", "e", "a", "t">>
  }

Inputs(v, stage) ==
    CASE stage = "idle" -> Inputs_idle
      [] stage = "awaitStart" -> Inputs_awaitStart
      [] stage = "askBuyerType" -> Inputs_askBuyerType
      [] stage = "askOccasion" -> Inputs_askOccasion
      [] stage = "askOccasionCustom" -> Inputs_askOccasionCustom
      [] stage = "askTemplate" -> Inputs_askTemplate
      [] stage = "askAmount" -> Inputs_askAmount
      [] stage = "askRecipientEmail" -> Inputs_askRecipientEmail
      [] stage = "askMessage" -> Inputs_askMessage
      [] stage = "confirm" -> Inputs_confirm
      [] stage = "completed" -> Inputs_completed
      [] stage = "bizWelcome" -> Inputs_bizWelcome
      [] stage = "bizLead" -> IF v = "v2" THEN Inputs_bizLeadV2 ELSE Inputs_bizLeadV3
      [] stage = "bizOptions" -> Inputs_bizOptions
      [] stage = "bizVerification" -> Inputs_bizVerification
      [] stage = "bizNeedsOccasion" ->
            IF v = "v2" THEN Inputs_bizNeedsOccasionV2 ELSE Inputs_bizNeedsOccasionV3
      [] stage = "bizNeedsOccasionCustom" -> Inputs_bizNeedsOccasionCustom
      [] stage = "bizNeedsOrderDetails" -> Inputs_bizNeedsOrderDetails
      [] stage = "bizNeedsDelivery" ->
            IF v = "v2" THEN Inputs_bizNeedsDeliveryV2 ELSE Inputs_bizNeedsDeliveryV3
      [] stage = "bizOrderSummary" -> Inputs_bizOrderSummary
      [] stage = "bizManualRequirements" -> Inputs_bizManualRequirements
      [] stage = "bizNeedsDenomination" -> Inputs_bizNeedsDenomination
      [] stage = "bizNeedsDenominationCustom" -> Inputs_bizNeedsDenominationCustom
      [] stage = "bizNeedsBudget" -> Inputs_bizNeedsBudget
      [] stage = "bizDiscount" -> Inputs_bizDiscount
      [] stage = "bizQuote" -> Inputs_bizQuote
      [] stage = "bizPI" -> Inputs_bizPI
      [] stage = "bizPIUpload" -> Inputs_bizPIUpload
      [] stage = "bizPOValidated" -> Inputs_bizPOValidated
      [] stage = "bizPaymentInfo" -> Inputs_bizPaymentInfo
      [] stage = "bizPaymentOptions" -> Inputs_bizPaymentOptions
      [] stage = "bizPaymentMethod" -> Inputs_bizPaymentMethod
      [] stage = "bizPaymentProcessing" -> Inputs_bizPaymentProcessing
      [] stage = "bizIssued" -> Inputs_bizIssued
      [] stage = "bizReports" -> Inputs_bizReports
      [] stage \in {"bizReportInvoices", "bizReportDelivery", "bizReportQuery"} ->
            Inputs_bizReportRequest
      [] stage = "bizReportComplete" -> Inputs_bizReportComplete
      [] stage = "bizFinal" -> Inputs_bizFinal
      [] stage = "bizFeedback" -> Inputs_bizFeedback
      [] OTHER -> Core

\* the random values a turn may draw: the token of the gift link, the order
\* id of the receipt, the business request id
Tokens == {"4f2a9c", "9c1d77"}
OrderIds == {"1b9d6bcd"}
RequestIds == {"GC2025-7F2A"}
Randoms == [token : Tokens, orderId : OrderIds, requestId : RequestIds]

\* the session ids generateSessionId may return
SessionIds == {"s1"}

Variants == {"server", "v1", "v2", "v3"}


----------------------------------------------------------------------------
(* The session store and the /chat handler *)

FreshSession == [stage |-> "idle", data |-> NoData]

\* a request field that is absent (NoId) or the empty string is falsy
Truthy(sessionId) == sessionId \notin {NoId, ""}

\* seeded fault: an unknown id the client supplies becomes the key of the
\* new record
getOrCreateSession_KeysBySuppliedId(store, sessionId, newId) ==
    IF Truthy(sessionId) /\ sessionId \in DOMAIN store
    THEN [id |-> sessionId, state |-> store[sessionId], store |-> store]
    ELSE LET id == IF Truthy(sessionId) THEN sessionId ELSE newId
         IN  [id |-> id, state |-> FreshSession, store |-> (id :> FreshSession) @@ store]

\* seeded fault: creating a session evicts the sessions stored before it
getOrCreateSession_Evicts(store, sessionId, newId) ==
    IF Truthy(sessionId) /\ sessionId \in DOMAIN store
    THEN [id |-> sessionId, state |-> store[sessionId], store |-> store]
    ELSE [id |-> newId, state |-> FreshSession, store |-> (newId :> FreshSession)]

\* getOrCreateSession(sessionId): the id and the record it returns, and the
\* store it leaves; newId is the value of generateSessionId(). The field
\* createdAt is never read and is left out.
getOrCreateSession(store, sessionId, newId) ==
    IF Truthy(sessionId) /\ sessionId \in DOMAIN store
    THEN [id |-> sessionId, state |-> store[sessionId], store |-> store]
    ELSE [id |-> newId, state |-> FreshSession, store |-> (newId :> FreshSession) @@ store]

\* the dispatch of the handler file that is running
Handle(v, state, userMessage, rnd) ==
    CASE v = "server" -> HandleServer(state, userMessage, rnd)
      [] v = "v1" -> HandleV1(state, userMessage, rnd)
      [] v = "v2" -> HandleV2(state, userMessage, rnd)
      [] v = "v3" -> HandleV3(state, userMessage, rnd)

\* app.post('/chat'): one request {sessionId: incomingId, message}, handled
\* to completion. The stage branch mutates the session record in place, so
\* what it leaves is stored also when the handler ends in the catch block.
Chat(v, incomingId, message, newId, rnd) ==
    LET got == getOrCreateSession(sessions, incomingId, newId)
        userMessage == trim(message)
        respond(out) ==
            /\ sessions' = (got.id :> [stage |-> out.stage, data |-> out.data]) @@ got.store
            /\ resp' = [status |-> out.status, reply |-> out.reply,
                        sessionId |-> IF out.status = 200 THEN got.id ELSE NoId,
                        ui |-> out.ui, link |-> out.link, receipt |-> out.receipt,
                        summary |-> out.summary]
    IN  /\ variant = v
        /\ incomingId \in DOMAIN sessions \/ newId \notin DOMAIN sessions
        /\ respond(Handle(v, got.state, userMessage, rnd))
        /\ turn' = [incomingId |-> incomingId, message |-> message,
                    sessionId |-> got.id, stage |-> got.state.stage,
                    data |-> got.state.data]
        /\ UNCHANGED variant

\* a request: the client names a session or none, and sends one of the
\* messages of the environment; the server draws its random values
Request(v, incomingId, newId) ==
    \E message \in Inputs(v, getOrCreateSession(sessions, incomingId, newId).state.stage),
       rnd \in Randoms :
        Chat(v, incomingId, message, newId, rnd) /\ UNCHANGED <<pending, client>>

ChatServer ==
    \E incomingId \in SessionIds \cup {NoId}, newId \in SessionIds :
        Request("server", incomingId, newId)

ChatV1 ==
    \E incomingId \in SessionIds \cup {NoId}, newId \in SessionIds :
        Request("v1", incomingId, newId)

ChatV2 ==
    \E incomingId \in SessionIds \cup {NoId}, newId \in SessionIds :
        Request("v2", incomingId, newId)

ChatV3 ==
    \E incomingId \in SessionIds \cup {NoId}, newId \in SessionIds :
        Request("v3", incomingId, newId)

\* no requests are waiting
NoPending == [origin |-> FreshSession, sent |-> <<>>, waiting |-> {}]

\* the chat page as it is mounted: useState(null) for sessionId, useState(false)
\* for loading, useState([]) for messages; view is what the last render showed
\* and what the event handlers of that render read; flight holds the fetch
\* calls that have not settled, dropped the texts of the calls of sendMessage
\* that returned at its guard
NoClient ==
    [sessionId |-> NoId, loading |-> FALSE, messages |-> <<>>,
     view |-> [sessionId |-> NoId, loading |-> FALSE, messages |-> <<>>],
     flight |-> <<>>, dropped |-> <<>>]

NoTurn == [incomingId |-> NoId, message |-> <<>>, sessionId |-> NoId,
           stage |-> "none", data |-> NoData]

NoResp == [status |-> 0, reply |-> "", sessionId |-> NoId, ui |-> "undefined",
           link |-> NoLink, receipt |-> NoData, summary |-> NoData]

Init ==
    /\ variant \in Variants
    /\ sessions = <<>>
    /\ resp = NoResp
    /\ turn = NoTurn
    /\ pending = NoPending
    /\ client = NoClient

Next == ChatServer \/ ChatV1 \/ ChatV2 \/ ChatV3

Spec == Init /\ [][Next]_vars

----------------------------------------------------------------------------
(* The amount stage of backend/server.js on its own: a session that has    *)
(* chosen the occasion diwali and the template t1 is sent every text of at *)
(* most MaxAmountLen characters over a small alphabet, and the amounts of  *)
(* the menu.                                                               *)

MaxAmountLen == 3

AmountAlphabet == {"0", "5", "a", "U+20B9", " "}

\* the ids of the amount options the handler sends with its prompt
AmountOptions ==
    {<<"5", "0", "0">>, <<"1", "0", "0", "0">>, <<"2", "0", "0", "0">>,
     <<"5", "0", "0", "0">>}

\* amounts around the limits the README names
LimitAmounts == {<<"1">>, <<"4">>, <<"5">>, <<"2", "0", "0", "1">>}

AmountTexts ==
    UNION {[1..n -> AmountAlphabet] : n \in 0..MaxAmountLen}
      \cup Inputs_askAmount \cup AmountOptions \cup LimitAmounts

AmountDraft == Put(Put(NoData, "occasion", Str_diwali), "templateId", <<"t", "1">>)

InitAmount ==
    /\ variant = "server"
    /\ sessions = ("s1" :> [stage |-> "askAmount", data |-> AmountDraft])
    /\ resp = [status |-> 200, reply |-> "Select the amount or enter a custom amount.",
               sessionId |-> "s1", ui |-> "amountOptions", link |-> NoLink,
               receipt |-> NoData, summary |-> NoData]
    /\ turn = [incomingId |-> "s1",
               message |-> <<"t", "e", "m", "p", "l", "a", "t", "e", ":", "t", "1">>,
               sessionId |-> "s1", stage |-> "askTemplate",
               data |-> Put(NoData, "occasion", Str_diwali)]
    /\ pending = NoPending
    /\ client = NoClient

AmountChat ==
    \E message \in AmountTexts, rnd \in Randoms :
        /\ sessions["s1"].stage = "askAmount"
        /\ Chat("server", "s1", message, "s1", rnd)
        /\ UNCHANGED <<pending, client>>

NextAmount == AmountChat

SpecAmount == InitAmount /\ [][NextAmount]_vars

----------------------------------------------------------------------------
(* The session store with several conversations. Clients name a stored     *)
(* session, an id the store never issued, the empty string, or send no id; *)
(* generateSessionId() is crypto.randomUUID(): an id the store does not    *)
(* hold and the client did not send. The store holds at most MaxSessions   *)
(* sessions in the model. The handler has nothing a message can make       *)
(* throw, so the catch block is entered by a fault raised inside the try   *)
(* block: after the session was looked up, either before the stage branch  *)
(* wrote to the record or after it did.                                    *)

MaxSessions == 2

GeneratedIds == {"s1", "s2", "s3"}

UnknownId == "x9"

ClientIds == GeneratedIds \cup {UnknownId, "", NoId}

StoreVariants == {"server", "v3"}

StoreMessages ==
  {
    <<"h", "i">>,
    <<"s", "t", "a", "r", "t">>,
    <<"D", "i", "w", "a", "l", "i">>
  }

\* no turn of these conversations reaches a stage that draws a random value
StoreRandom == CHOOSE rnd \in Randoms : TRUE

\* generateSessionId() for a request that sent incomingId; it is not called
\* when the request names a stored session
FreshIds(incomingId) ==
    IF Truthy(incomingId) /\ incomingId \in DOMAIN sessions
    THEN {incomingId}
    ELSE (GeneratedIds \ DOMAIN sessions) \ {incomingId}

\* the store has room for the session the request would create
HasRoom(incomingId) ==
    \/ Truthy(incomingId) /\ incomingId \in DOMAIN sessions
    \/ Cardinality(DOMAIN sessions) < MaxSessions

\* seeded fault: the exception is not caught, and the process restarts with
\* an empty store
ChatThrows_Crashes(v, incomingId, message, newId, rnd, written) ==
    /\ variant = v
    /\ sessions' = <<>>
    /\ resp' = [status |-> 500, reply |-> "", sessionId |-> NoId, ui |-> "undefined",
                link |-> NoLink, receipt |-> NoData, summary |-> NoData]
    /\ turn' = [incomingId |-> incomingId, message |-> message, sessionId |-> newId,
                stage |-> "idle", data |-> NoData]
    /\ UNCHANGED variant

\* the try block is left by an exception after getOrCreateSession returned;
\* written tells whether the stage branch had already written to the record
ChatThrows(v, incomingId, message, newId, rnd, written) ==
    LET got == getOrCreateSession(sessions, incomingId, newId)
        userMessage == trim(message)
        caught == Fault(got.state)
        left(out) == (got.id :> [stage |-> out.stage, data |-> out.data]) @@ got.store
    IN  /\ variant = v
        /\ sessions' = IF written
                       THEN left(Handle(v, got.state, userMessage, rnd))
                       ELSE got.store
        /\ resp' = [status |-> caught.status, reply |-> caught.reply,
                    sessionId |-> NoId, ui |-> caught.ui, link |-> caught.link,
                    receipt |-> caught.receipt, summary |-> caught.summary]
        /\ turn' = [incomingId |-> incomingId, message |-> message,
                    sessionId |-> got.id, stage |-> got.state.stage,
                    data |-> got.state.data]
        /\ UNCHANGED variant

StoreChat ==
    \E v \in StoreVariants, incomingId \in ClientIds, message \in StoreMessages :
        /\ HasRoom(incomingId)
        /\ \E newId \in FreshIds(incomingId) :
               Chat(v, incomingId, message, newId, StoreRandom) /\ UNCHANGED <<pending, client>>

StoreChatThrows ==
    \E v \in StoreVariants, incomingId \in ClientIds, message \in StoreMessages,
       written \in BOOLEAN :
        /\ HasRoom(incomingId)
        /\ \E newId \in FreshIds(incomingId) :
               /\ ChatThrows(v, incomingId, message, newId, StoreRandom, written)
               /\ UNCHANGED <<pending, client>>

InitStore ==
    /\ variant \in StoreVariants
    /\ sessions = <<>>
    /\ resp = NoResp
    /\ turn = NoTurn
    /\ pending = NoPending
    /\ client = NoClient

NextStore == StoreChat \/ StoreChatThrows

SpecStore == InitStore /\ [][NextStore]_vars

----------------------------------------------------------------------------
(* The business verification form of the third handler: one conversation   *)
(* that has reached stage bizVerification, and lead payloads whose fields  *)
(* other than the GSTIN are valid. The GSTIN is any string of at most      *)
(* MaxGstinLen characters over a small alphabet, or one of a few others.   *)

MaxGstinLen == 4

GstinAlphabet == {"0", "7"}

GstinTexts ==
    UNION {[1..n -> GstinAlphabet] : n \in 0..MaxGstinLen}
      \cup {<<"h", "i">>, <<" ", " ">>, <<" ", "0", "7", " ">>,
            <<"2", "7", "A", "B", "0", "C", "0", "0">>,
            <<"2", "7", "A", "0", "0", "0", "0", "Z">>,
            <<"0", "A", "0", "B", "0", "C", "0">>}

LeadPrefix ==
    <<"l", "e", "a", "d", "|", "A", "n", "n", "|", "A", "c", "m", "e", "|",
      "9", "8", "7", "6", "5", "4", "3", "2", "1", "0", "|",
      "a", "n", "n", "@", "a", "c", "m", "e", ".", "c", "o", "|">>

LeadSuffix == <<"|", "1", "2", "3", "|", "H", "D", "1">>

InitGstin ==
    /\ variant = "v3"
    /\ sessions = ("s1" :> [stage |-> "bizVerification",
                            data |-> Put(NoData, "biz", [checksToday |-> 0])])
    /\ resp = [status |-> 200,
               reply |-> "Great! To get you started, please share a few quick details.",
               sessionId |-> "s1", ui |-> "bizVerificationForm", link |-> NoLink,
               receipt |-> NoData, summary |-> NoData]
    /\ turn = [incomingId |-> "s1", message |-> <<"1">>, sessionId |-> "s1",
               stage |-> "bizOptions",
               data |-> Put(NoData, "biz", [checksToday |-> 0])]
    /\ pending = NoPending
    /\ client = NoClient

GstinChat ==
    \E gstin \in GstinTexts :
        /\ sessions["s1"].stage = "bizVerification"
        /\ Chat("v3", "s1", LeadPrefix \o gstin \o LeadSuffix, "s1", StoreRandom)
        /\ UNCHANGED <<pending, client>>

NextGstin == GstinChat

SpecGstin == InitGstin /\ [][NextGstin]_vars

----------------------------------------------------------------------------
(* The business quotation of the second handler and the order summary of   *)
(* the third: one conversation brought to the stage that asks for the      *)
(* denomination (second handler) or for the order (third handler), then    *)
(* budgets and orders whose gross value runs over 1..MaxGross and over its *)
(* multiples by the denominations.                                         *)

MaxGross == 150

\* the session after the handler v has answered the messages msgs in turn
RECURSIVE Run(_, _, _)
Run(v, state, msgs) ==
    IF msgs = <<>> THEN state
    ELSE LET out == Handle(v, state, trim(Head(msgs)), StoreRandom)
         IN  Run(v, [stage |-> out.stage, data |-> out.data], Tail(msgs))

QuotePathV2 ==
    << <<"h", "i">>, <<"s", "t", "a", "r", "t">>, <<"2">>, <<>>,
       <<"l", "e", "a", "d", "|", "A", "n", "n", " ", "L", "e", "e", "|",
         "A", "c", "m", "e", "|", "a", "n", "n", "@", "a", "c", "m", "e", ".", "c", "o", "|",
         "9", "8", "7", "6", "5", " ", "4", "3", "2", "1", "0", "|", "s", "k", "i", "p">>,
       <<"R", "e", "w", "a", "r", "d", "s">> >>

OrderPathV3 ==
    << <<"h", "i">>, <<"s", "t", "a", "r", "t">>, <<"2">>, <<"1">>,
       LeadPrefix \o <<"2", "7", "A", "B", "0", "C", "0", "0">> \o LeadSuffix,
       <<"T", "h", "a", "n", "k", " ", "Y", "o", "u">> >>

\* the session of the second handler after the messages QuotePathV2
QuoteStartV2 ==
    [stage |-> "bizNeedsDenomination",
     data |-> Put(NoData, "biz",
                  [name |-> <<"A", "n", "n", " ", "L", "e", "e">>,
                   company |-> <<"A", "c", "m", "e">>,
                   email |-> <<"a", "n", "n", "@", "a", "c", "m", "e", ".", "c", "o">>,
                   phone |-> <<"9", "8", "7", "6", "5", "4", "3", "2", "1", "0">>,
                   gstin |-> <<>>, checksToday |-> 0, requestId |-> "GC2025-7F2A",
                   occasion |-> <<"r", "e", "w", "a", "r", "d", "s">>])]

\* the session of the third handler after the messages OrderPathV3
OrderStartV3 ==
    [stage |-> "bizNeedsOrderDetails",
     data |-> Put(NoData, "biz",
                  [name |-> <<"A", "n", "n">>,
                   company |-> <<"A", "c", "m", "e">>,
                   email |-> <<"a", "n", "n", "@", "a", "c", "m", "e", ".", "c", "o">>,
                   phone |-> <<"9", "8", "7", "6", "5", "4", "3", "2", "1", "0">>,
                   gstin |-> <<"2", "7", "A", "B", "0", "C", "0", "0">>,
                   checksToday |-> 0, requestId |-> "GC2025-7F2A",
                   bankAccount |-> <<"1", "2", "3">>, ifsc |-> <<"H", "D", "1">>,
                   verified |-> TRUE, discountEligible |-> TRUE, discountPercent |-> 1,
                   occasion |-> <<"T", "h", "a", "n", "k", " ", "Y", "o", "u">>])]

DiscountDenominations == {1, 25}

OrderDenominations == {1, 50}

BudgetTexts == {intToString(n) : n \in 1..MaxGross}

DenominationTexts == {intToString(d) : d \in DiscountDenominations}

OrderTexts ==
    {Str_orderBar \o intToString(q) \o <<"|">> \o intToString(d) :
         q \in 1..MaxGross, d \in OrderDenominations}

\* orders at and above the limit of the order form, in the two formats of
\* the form
LargeOrderTexts ==
    {<<"o", "r", "d", "e", "r", "|", "3", "0", "0", "|", "1", "0", "0", "0">>,
     <<"o", "r", "d", "e", "r", "|", "3", "0", "1", "|", "1", "0", "0", "0">>,
     <<"o", "r", "d", "e", "r", "s", "|", "[", "{", "\"", "d", "e", "n", "o", "m", "i", "n", "a", "t", "i", "o", "n", "\"", ":", "\"", "1", "0", "0", "0", "\"", ",", "\"", "c", "o", "u", "n", "t", "\"", ":", "\"", "3", "0", "1", "\"", "}", "]", "|", "3", "0", "1", "0", "0", "0">>}

DiscountInputs(v, stage) ==
    CASE v = "v2" /\ stage = "bizNeedsDenomination" -> DenominationTexts
      [] v = "v2" /\ stage = "bizNeedsBudget" -> BudgetTexts
      [] v = "v2" /\ stage = "bizNeedsDelivery" -> {<<"b", "u", "l", "k">>}
      [] v = "v2" /\ stage = "bizDiscount" -> {<<"o", "k">>}
      [] v = "v3" /\ stage = "bizNeedsOrderDetails" -> OrderTexts \cup LargeOrderTexts
      [] v = "v3" /\ stage = "bizNeedsDelivery" -> {Str_confirm}
      [] v = "v3" /\ stage = "bizOrderSummary" -> {<<"1">>}
      [] OTHER -> {}

InitDiscount ==
    /\ variant \in {"v2", "v3"}
    /\ sessions = ("s1" :> IF variant = "v2" THEN QuoteStartV2 ELSE OrderStartV3)
    /\ resp = NoResp
    /\ turn = NoTurn
    /\ pending = NoPending
    /\ client = NoClient

DiscountChat ==
    \E message \in DiscountInputs(variant, sessions["s1"].stage) :
        Chat(variant, "s1", message, "s1", StoreRandom) /\ UNCHANGED <<pending, client>>

NextDiscount == DiscountChat

SpecDiscount == InitDiscount /\ [][NextDiscount]_vars

----------------------------------------------------------------------------
(* Two requests for one session that reach the server together. Node runs  *)
(* one callback at a time, and the handler of server.js is one synchronous *)
(* function (no await, no callback between getOrCreateSession and          *)
(* res.json): the requests wait in the event queue and each is handled to  *)
(* completion, in either order.                                            *)

ConcurrentMessages ==
  {
    <<"h", "i">>,
    <<"D", "i", "w", "a", "l", "i">>,
    <<"t", "e", "m", "p", "l", "a", "t", "e", ":", "t", "1">>,
    <<"5", "0", "0">>,
    <<"a", "@", "b", ".", "c", "o">>,
    <<"c", "a", "n", "c", "e", "l">>
  }

\* the client sends two requests for session s1 without waiting for a reply
SendTwo ==
    /\ pending.waiting = {}
    /\ \E m1, m2 \in ConcurrentMessages :
           pending' = [origin |-> sessions["s1"], sent |-> <<m1, m2>>, waiting |-> {1, 2}]
    /\ UNCHANGED <<variant, sessions, resp, turn, client>>

\* seeded fault: the handler is suspended between looking the session up
\* and writing to it, so it works on the record as it was when the request
\* arrived
Serve_Suspends(i) ==
    LET out == Handle(variant, pending.origin, trim(pending.sent[i]), StoreRandom)
    IN  /\ i \in pending.waiting
        /\ sessions' = ("s1" :> [stage |-> out.stage, data |-> out.data]) @@ sessions
        /\ resp' = [status |-> out.status, reply |-> out.reply, sessionId |-> "s1",
                    ui |-> out.ui, link |-> out.link, receipt |-> out.receipt,
                    summary |-> out.summary]
        /\ turn' = [incomingId |-> "s1", message |-> pending.sent[i], sessionId |-> "s1",
                    stage |-> pending.origin.stage, data |-> pending.origin.data]
        /\ pending' = [pending EXCEPT !.waiting = @ \ {i}]
        /\ UNCHANGED <<variant, client>>

\* the event loop runs the handler for one of the waiting requests
Serve(i) ==
    /\ i \in pending.waiting
    /\ Chat(variant, "s1", pending.sent[i], "s1", StoreRandom)
    /\ pending' = [pending EXCEPT !.waiting = @ \ {i}]
    /\ UNCHANGED client

ServeWaiting == \E i \in {1, 2} : Serve(i)

\* the session exists: a first request with an empty message has been answered
InitConcurrent ==
    /\ variant = "server"
    /\ sessions = ("s1" :> FreshSession)
    /\ resp = [status |-> 200, reply |-> "Please say 'hi' to begin.",
               sessionId |-> "s1", ui |-> "undefined", link |-> NoLink,
               receipt |-> NoData, summary |-> NoData]
    /\ turn = [incomingId |-> NoId, message |-> <<>>, sessionId |-> "s1",
               stage |-> "idle", data |-> NoData]
    /\ pending = NoPending
    /\ client = NoClient

NextConcurrent == SendTwo \/ ServeWaiting

SpecConcurrent == InitConcurrent /\ [][NextConcurrent]_vars

----------------------------------------------------------------------------
(* Properties. They are stated on the last turn: Before is the session as  *)
(* the handler found it, After the session as the handler left it, Text    *)
(* the message as the handler reads it (trimmed).                          *)

Acted == turn.sessionId # NoId

Before == [stage |-> turn.stage, data |-> turn.data]

After == sessions[turn.sessionId]

Text == trim(turn.message)

\* the message is this word, whatever its case
Said(word) == toLowerCase(Text) = word

Restarted(stage) == After.stage = stage /\ After.data = NoData

BusinessAware == variant \in {"v1", "v2", "v3"}

WelcomeReply == "Welcome to Amazon Pay Gift Cards"

\* the value of a string of decimal digits, read from the left
RECURSIVE DecimalValue(_, _)
DecimalValue(acc, d) ==
    IF d = <<>> THEN acc
    ELSE DecimalValue(10 * acc + (CASE d[1] = "0" -> 0 [] d[1] = "1" -> 1
                                    [] d[1] = "2" -> 2 [] d[1] = "3" -> 3
                                    [] d[1] = "4" -> 4 [] d[1] = "5" -> 5
                                    [] d[1] = "6" -> 6 [] d[1] = "7" -> 7
                                    [] d[1] = "8" -> 8 [] d[1] = "9" -> 9),
                      Tail(d))

DigitsOf(text) ==
    SelectSeq(text, LAMBDA c : c \in {"0", "1", "2", "3", "4", "5", "6", "7", "8", "9"})

\* the digits of the text without leading zeros: the decimal numeral of the
\* number they denote (empty for zero)
RECURSIVE SignificantDigits(_)
SignificantDigits(text) ==
    LET d == DigitsOf(text)
    IN  IF d # <<>> /\ d[1] = "0" THEN SignificantDigits(Tail(d)) ELSE d

\* the decimal numeral of a positive integer
RECURSIVE Numeral(_)
Numeral(n) ==
    IF n = 0 THEN <<>>
    ELSE Numeral(n \div 10) \o
         <<CHOOSE c \in {"0", "1", "2", "3", "4", "5", "6", "7", "8", "9"} :
               DecimalValue(0, <<c>>) = n % 10>>

\* the text holds a positive number: its digits, read together, are > 0
PositiveAmount(text) == \E i \in 1..Len(DigitsOf(text)) : DigitsOf(text)[i] # "0"

\* the text is 'template:<id>' with a non-empty id, or t<digits>
TemplateSelection(text) ==
    LET m == toLowerCase(text)
    IN  \/ startsWith(m, Str_templateColon) /\ Len(m) > 9 /\ m[10] # ":"
        \/ Len(m) >= 2 /\ m[1] = "t" /\ DigitsOf(Tail(m)) = Tail(m)

\* the prompt each stage of the personal flow repeats on a rejected message
RePrompt(stage) ==
    CASE stage = "askOccasion" -> "For what occasion you want to buy a gift card?"
      [] stage = "askOccasionCustom" -> "Please enter the occasion."
      [] stage = "askTemplate" -> "Please select a template."
      [] stage = "askAmount" -> "Please enter a valid amount."
      [] stage = "askRecipientEmail" -> "Please provide a valid email address."
      [] stage = "confirm" -> "Please reply with 'confirm' or 'cancel'."

\* the last message is one the stage it was sent in rejects
Rejected ==
    \/ turn.stage \in {"askOccasion", "askOccasionCustom"} /\ Text = <<>>
    \/ turn.stage = "askTemplate" /\ ~TemplateSelection(Text)
    \/ turn.stage = "askAmount" /\ ~PositiveAmount(Text)
    \/ turn.stage = "askRecipientEmail" /\ ~isValidEmail(Text)
    \/ turn.stage = "confirm" /\ ~Said(Str_confirm) /\ ~Said(Str_cancel)

\* C1: in backend/server.js a message that its stage rejects (askOccasion and
\* askOccasionCustom: empty; askTemplate: neither 'template:<id>' nor
\* t<digits>; askAmount: no positive number; askRecipientEmail: malformed;
\* confirm: neither confirm nor cancel) leaves the stage unchanged and is
\* answered with that stage's re-prompt.
C1_RejectedKeepsStage ==
    (variant = "server" /\ Acted /\ Rejected) =>
        /\ After.stage = turn.stage
        /\ resp.status = 200
        /\ resp.reply = RePrompt(turn.stage)

\* a malformed address was sent in askRecipientEmail and was re-prompted
C1_Witness ==
    /\ variant = "server" /\ Acted /\ Rejected
    /\ turn.stage = "askRecipientEmail"
    /\ Text # <<>>
    /\ After.stage = "askRecipientEmail"
    /\ resp.reply = "Please provide a valid email address."

C3_GreetingRestarts ==
    (BusinessAware /\ Acted /\ isGreeting(Text)) =>
        /\ Restarted("awaitStart")
        /\ resp.status = 200
        /\ resp.reply = WelcomeReply
        /\ resp.ui = "start"
        /\ (turn.stage = "awaitStart" /\ turn.data = NoData) => After = Before

\* a greeting found a business draft in a late stage and emptied it
C3_Witness ==
    /\ BusinessAware /\ Acted /\ isGreeting(Text)
    /\ turn.stage = "bizFinal"
    /\ Has(turn.data, "biz")
    /\ Restarted("awaitStart")

\* C4 as stated: on a fresh session (stage idle, empty draft) 'hi' yields
\* the welcome reply and leaves the session in askOccasion in
\* backend/server.js and in askBuyerType in the business-aware handlers.
C4_HiAsksBuyerType ==
    (Acted /\ Before = FreshSession /\ Said(<<"h", "i">>)) =>
        /\ resp.reply = WelcomeReply
        /\ After.stage = IF variant = "server" THEN "askOccasion" ELSE "askBuyerType"

\* C4, amended: on a fresh session 'hi' yields the welcome reply and leaves
\* the session in askOccasion in backend/server.js, and in awaitStart (the
\* Start button) in the business-aware handlers; the draft stays empty.
C4_HiWelcomes ==
    (Acted /\ Before = FreshSession /\ Said(<<"h", "i">>)) =>
        /\ resp.reply = WelcomeReply
        /\ After.stage = IF variant = "server" THEN "askOccasion" ELSE "awaitStart"
        /\ After.data = NoData
        /\ resp.ui = IF variant = "server" THEN "occasionOptions" ELSE "start"

\* the first request of a business-aware handler was 'hi'
C4_Witness ==
    /\ BusinessAware /\ Acted /\ Before = FreshSession /\ Said(<<"h", "i">>)
    /\ turn.incomingId = NoId
    /\ After.stage = "awaitStart"

\* the last message is a valid input of the stage of the happy path it was
\* sent in: an occasion, a template selection, a positive amount, an email
\* address, any personal message, and 'confirm' in stage confirm
HappyInput ==
    \/ turn.stage \in {"askOccasion", "askOccasionCustom"} /\ Text # <<>>
    \/ turn.stage = "askTemplate" /\ TemplateSelection(Text)
    \/ turn.stage = "askAmount" /\ PositiveAmount(Text)
    \/ turn.stage = "askRecipientEmail" /\ isValidEmail(Text)
    \/ turn.stage = "askMessage"
    \/ turn.stage = "confirm" /\ Said(Str_confirm)

\* the stage of the happy path that follows the stage the message was sent in
HappyNext ==
    CASE turn.stage = "askOccasion" ->
            IF Said(Str_other) THEN "askOccasionCustom" ELSE "askTemplate"
      [] turn.stage = "askOccasionCustom" -> "askTemplate"
      [] turn.stage = "askTemplate" -> "askAmount"
      [] turn.stage = "askAmount" -> "askRecipientEmail"
      [] turn.stage = "askRecipientEmail" -> "askMessage"
      [] turn.stage = "askMessage" -> "confirm"
      [] turn.stage = "confirm" -> "completed"

\* the reply carries a link https://mock.amazon/gift/<token>
HasGiftLink ==
    /\ resp.link # NoLink
    /\ resp.link.prefix = "https://mock.amazon/gift/"
    /\ resp.link.token \in Tokens

\* every step of the happy path advances, and the last one completes the
\* order with a gift link and a draft that holds the five fields
HappyStep ==
    /\ After.stage = HappyNext
    /\ resp.status = 200
    /\ turn.stage = "confirm" =>
          /\ HasGiftLink
          /\ ReceiptFields \subseteq DOMAIN After.data
          /\ After.data = turn.data

\* C5 as stated: from the occasion stage on, every valid occasion, template
\* selection, amount and email address and ANY personal message is taken and
\* moves the session one stage on, and 'confirm' then ends in stage
\* completed with a reply that carries a link https://mock.amazon/gift/<token>.
C5_AnyMessageCompletes == (Acted /\ HappyInput) => HappyStep

\* C5, amended: as stated in backend/server.js; in the business-aware
\* handlers only for messages that do not contain hi, hello or hey as a
\* whole word, because such an occasion, email address or personal message
\* restarts the session at awaitStart with an empty draft.
C5_HappyPathCompletes ==
    (Acted /\ HappyInput) =>
        IF BusinessAware /\ isGreeting(Text)
        THEN Restarted("awaitStart") /\ ~HasGiftLink
        ELSE HappyStep

\* an order of the third handler was completed from a full draft
C5_Witness ==
    /\ variant = "v3" /\ Acted /\ HappyInput
    /\ turn.stage = "confirm"
    /\ After.stage = "completed"
    /\ HasGiftLink
    /\ ReceiptFields \subseteq DOMAIN After.data

\* C6: stage completed is entered, and a reply with a gift link or a receipt
\* is produced, only by a turn that starts in stage confirm with the message
\* 'confirm' (as the stage reads it: trimmed, in any case).
C6_ReceiptOnlyFromConfirm ==
    (Acted /\ (After.stage = "completed" \/ resp.link # NoLink \/ resp.receipt # NoData)) =>
        /\ turn.stage = "confirm"
        /\ Said(Str_confirm)
        /\ After.stage = "completed"
        /\ HasGiftLink

\* an order was completed and its reply carries the link and the receipt
C6_Witness ==
    /\ Acted
    /\ After.stage = "completed"
    /\ turn.stage = "confirm"
    /\ resp.receipt # NoData
    /\ resp.receipt["giftLink"] = resp.link

\* C7 as stated: in stage confirm 'cancel' sets the stage to idle and
\* empties the draft, and every message other than 'confirm' and 'cancel'
\* leaves stage and draft unchanged and is answered with the confirm/cancel
\* prompt.
C7_OtherTextReprompts ==
    (Acted /\ turn.stage = "confirm") =>
        /\ Said(Str_cancel) => Restarted("idle")
        /\ (~Said(Str_confirm) /\ ~Said(Str_cancel)) =>
              After = Before /\ resp.reply = RePrompt("confirm")

\* C7, amended: as stated, except that in the business-aware handlers a
\* message containing hi, hello or hey as a whole word is not re-prompted:
\* it restarts the session at awaitStart with an empty draft.
C7_ConfirmStage ==
    (Acted /\ turn.stage = "confirm") =>
        /\ Said(Str_cancel) =>
              Restarted("idle") /\ resp.reply = "Cancelled. Say 'hi' to start again."
        /\ (~Said(Str_confirm) /\ ~Said(Str_cancel)) =>
              IF BusinessAware /\ isGreeting(Text)
              THEN Restarted("awaitStart")
              ELSE After = Before /\ resp.reply = RePrompt("confirm")

\* 'cancel' was sent to the first business-aware handler in stage confirm
\* and emptied a full draft
C7_Witness ==
    /\ variant = "v1" /\ Acted
    /\ turn.stage = "confirm"
    /\ Said(Str_cancel)
    /\ ReceiptFields \subseteq DOMAIN turn.data
    /\ Restarted("idle")

\* C8 as stated: from stage completed any further message, whatever its
\* content, sets the stage to idle and empties the draft.
C8_AnyMessageToIdle ==
    (Acted /\ turn.stage = "completed") => Restarted("idle")

\* C8, amended: from stage completed any further message empties the draft;
\* it sets the stage to idle, except that in the business-aware handlers a
\* message containing hi, hello or hey as a whole word sets it to awaitStart.
C8_CompletedRestarts ==
    (Acted /\ turn.stage = "completed") =>
        IF BusinessAware /\ isGreeting(Text)
        THEN Restarted("awaitStart")
        ELSE Restarted("idle") /\ resp.reply = "Say 'hi' to start a new gift card."

\* a message after completion found a full draft and emptied it
C8_Witness ==
    /\ variant = "v3" /\ Acted
    /\ turn.stage = "completed"
    /\ ReceiptFields \subseteq DOMAIN turn.data
    /\ Restarted("idle")

\* C9: the amount stage of backend/server.js accepts a message if and only
\* if its digits, all other characters removed, form a non-empty string
\* whose value is greater than zero; it then stores exactly that value and
\* asks for the recipient; '500' and the rupee sign followed by 500 both
\* store 500; '0' and text without digits are rejected, and the stage stays
\* askAmount with the draft as it was.
C9_AmountAccepted ==
    (variant = "server" /\ Acted /\ turn.stage = "askAmount") =>
        /\ IF PositiveAmount(Text)
           THEN /\ After.stage = "askRecipientEmail"
                /\ "amount" \in DOMAIN After.data
                /\ After.data = Put(turn.data, "amount", After.data["amount"])
                /\ Numeral(After.data["amount"]) = SignificantDigits(Text)
           ELSE /\ After = Before
                /\ resp.reply = RePrompt("askAmount")
        /\ Text \in {<<"5", "0", "0">>, <<"U+20B9", "5", "0", "0">>} =>
              After.stage = "askRecipientEmail" /\ After.data["amount"] = 500
        /\ (Text = <<"0">> \/ DigitsOf(Text) = <<>>) => After.stage = "askAmount"

\* an amount written with other characters around its digits was stored
C9_Witness ==
    /\ variant = "server" /\ Acted
    /\ turn.stage = "askAmount"
    /\ DigitsOf(Text) # Text
    /\ After.stage = "askRecipientEmail"
    /\ After.data["amount"] = 500

\* the message 'cancel' emptied the draft and brought the session back to
\* idle from another stage
CancelReset == Before.stage # "idle" /\ Restarted("idle")

\* C10 as stated: in backend/server.js 'cancel' resets the draft and returns
\* the session to idle only when the stage is confirm; in askAmount it is an
\* invalid amount: the stage stays askAmount, the draft is unchanged and the
\* amount prompt is re-issued.
C10_CancelOnlyInConfirm ==
    (variant = "server" /\ Acted /\ Said(Str_cancel)) =>
        /\ CancelReset <=> turn.stage = "confirm"
        /\ turn.stage = "askAmount" =>
              After = Before /\ resp.reply = RePrompt("askAmount")

\* C10, amended: in backend/server.js 'cancel' resets the draft and returns
\* the session to idle only when the stage is confirm or completed (from
\* completed every message does); in askAmount it is an invalid amount: the
\* stage stays askAmount, the draft is unchanged and the amount prompt is
\* re-issued.
C10_CancelInAmountStage ==
    (variant = "server" /\ Acted /\ Said(Str_cancel)) =>
        /\ CancelReset <=> turn.stage \in {"confirm", "completed"}
        /\ turn.stage = "confirm" => resp.reply = "Cancelled. Say 'hi' to start again."
        /\ turn.stage = "askAmount" =>
              After = Before /\ resp.reply = RePrompt("askAmount")

\* 'cancel' was sent in the amount stage and the draft was kept
C10_Witness ==
    /\ variant = "server" /\ Acted /\ Said(Str_cancel)
    /\ turn.stage = "askAmount"
    /\ After.stage = "askAmount"
    /\ After.data = turn.data
    /\ After.data # NoData

----------------------------------------------------------------------------
(* The session store *)

\* the request of the step named a session the store holds
KnownId == Truthy(turn'.incomingId) /\ turn'.incomingId \in DOMAIN sessions

\* C11: getOrCreateSession returns the stored record unchanged under the
\* same id when the supplied id is in the store, and adds no record; when
\* the id is missing, empty or unknown it inserts exactly one new record
\* (stage idle, empty draft) under a newly generated id, which is not the
\* supplied id and was not in the store, and returns that id.
C11_LookupOrCreate ==
    [][ IF KnownId
        THEN /\ turn'.sessionId = turn'.incomingId
             /\ [stage |-> turn'.stage, data |-> turn'.data] = sessions[turn'.incomingId]
             /\ DOMAIN sessions' = DOMAIN sessions
        ELSE /\ turn'.sessionId \notin DOMAIN sessions
             /\ turn'.sessionId # turn'.incomingId
             /\ turn'.sessionId \in GeneratedIds
             /\ DOMAIN sessions' = DOMAIN sessions \cup {turn'.sessionId}
             /\ [stage |-> turn'.stage, data |-> turn'.data] = FreshSession
             /\ resp'.status = 200 => resp'.sessionId = turn'.sessionId
      ]_vars

\* an unknown id opened a second session under a generated id
C11_Witness ==
    /\ turn.incomingId = UnknownId
    /\ turn.sessionId \in GeneratedIds
    /\ turn.stage = "idle"
    /\ UnknownId \notin DOMAIN sessions
    /\ Cardinality(DOMAIN sessions) = 2
    /\ resp.sessionId = turn.sessionId

\* C12: a turn changes at most the stage and draft of the session it is
\* addressed to, and adds at most one session, only when the request named
\* no stored session; every other session keeps its stage and draft, and no
\* session is removed from the store.
C12_OtherSessionsUntouched ==
    [][ /\ DOMAIN sessions \subseteq DOMAIN sessions'
        /\ \A id \in DOMAIN sessions \ {turn'.sessionId} : sessions'[id] = sessions[id]
        /\ DOMAIN sessions' \ DOMAIN sessions \subseteq {turn'.sessionId}
        /\ KnownId => DOMAIN sessions' = DOMAIN sessions
      ]_vars

\* two conversations under way, the last turn having moved one of them
C12_Witness ==
    /\ Cardinality(DOMAIN sessions) = 2
    /\ \A id \in DOMAIN sessions : sessions[id].stage # "idle"
    /\ turn.incomingId = turn.sessionId
    /\ resp.status = 200
    /\ sessions[turn.sessionId].stage # turn.stage

\* the turn of the step ended in the catch block
Threw == resp'.status = 500

\* C13: when the processing of a turn throws, the answer is the fixed reply
\* 'Something went wrong. Please try again.' with a null session id, every
\* session other than the one of the failed turn keeps its stage and draft,
\* and the handler goes on serving: a further request can be answered.
C13_FaultContained ==
    /\ [][ Threw =>
             /\ resp'.reply = "Something went wrong. Please try again."
             /\ resp'.sessionId = NoId
             /\ \A id \in DOMAIN sessions \ {turn'.sessionId} :
                    id \in DOMAIN sessions' /\ sessions'[id] = sessions[id]
         ]_vars
    /\ [](resp.status = 500 => ENABLED StoreChat)

\* a turn failed after its stage branch had written to the session, while
\* another conversation was under way
C13_Witness ==
    /\ resp.status = 500
    /\ Cardinality(DOMAIN sessions) = 2
    /\ sessions[turn.sessionId].stage # turn.stage
    /\ \E id \in DOMAIN sessions \ {turn.sessionId} : sessions[id].stage # "idle"

----------------------------------------------------------------------------
(* The mock verification of the business buyer *)

\* the number of '0' characters of a string
Zeros(s) == Cardinality({i \in 1..Len(s) : s[i] = "0"})

\* a lead submitted in stage bizVerification whose name, company, phone,
\* email, bank account and IFSC are valid
ValidLeadTurn(lead) ==
    /\ Acted /\ variant = "v3" /\ Before.stage = "bizVerification"
    /\ ~lead.null
    /\ lead.fullName # <<>> /\ lead.company # <<>> /\ isValidEmail(lead.email)
    /\ phoneOk(normalizePhone(lead.phone))
    /\ lead.bankAccount # <<>> /\ lead.ifsc # <<>>

Verified(lead) ==
    /\ After.stage = "bizNeedsOccasion"
    /\ After.data["biz"].verified /\ After.data["biz"].gstin = lead.gstin

\* C14 as stated: with the other fields valid, every GSTIN with fewer than
\* four '0' characters is accepted and the session advances to
\* bizNeedsOccasion, and every GSTIN with four or more stays in
\* bizVerification.
C14_ZerosAloneDecide ==
    LET lead == parseBatchLeadV3(Text)
    IN  ValidLeadTurn(lead) =>
            IF Zeros(lead.gstin) < 4
            THEN After.stage = "bizNeedsOccasion"
            ELSE After.stage = "bizVerification"

\* C14 amended: the rule holds for a GSTIN that is not blank, in a payload
\* without a greeting word. A blank GSTIN is a missing required field: the
\* form is asked again and the session is unchanged. A payload with a
\* greeting word restarts the conversation at awaitStart.
C14_SuppliedGstin ==
    LET lead == parseBatchLeadV3(Text)
    IN  ValidLeadTurn(lead) =>
            IF isGreeting(Text) THEN Restarted("awaitStart")
            ELSE IF lead.gstin = <<>>
            THEN /\ After = Before
                 /\ resp.reply = "Please provide valid Name, Company, Phone, Email, GSTIN, Bank Account, and IFSC."
            ELSE IF Zeros(lead.gstin) < 4 THEN Verified(lead)
            ELSE /\ After.stage = "bizVerification"
                 /\ resp.reply = "Verification Failed: Account & GST must belong to the same company. Please retry."

\* a GSTIN with exactly three zeros among other characters was accepted
C14_Witness ==
    LET lead == parseBatchLeadV3(Text)
    IN  /\ ValidLeadTurn(lead) /\ ~isGreeting(Text)
        /\ Zeros(lead.gstin) = 3 /\ Len(lead.gstin) = 4
        /\ Verified(lead)

----------------------------------------------------------------------------
(* The business discount *)

\* the reply of the last turn quotes a gross value, a discount and a net
Quoted == Acted /\ resp.summary # NoData /\ "gross" \in DOMAIN resp.summary

\* the percentage of the handler: 2% in the quotation of the second handler,
\* 1% in the order summary of the third
Percent == IF variant = "v2" THEN 2 ELSE 1

\* the gross value of the order as the session holds it
GrossOf(biz) ==
    IF variant = "v2"
    THEN biz["denomination"] * (IF biz["budget"] \div biz["denomination"] >= 1
                                THEN biz["budget"] \div biz["denomination"] ELSE 1)
    ELSE biz["totalAmount"]

----------------------------------------------------------------------------
(* The draft of the order *)

DraftFields == {"occasion", "templateId", "amount", "recipientEmail", "personalMessage"}

\* the fields of the draft the turn found and did not leave
Dropped == (DOMAIN Before.data \cap DraftFields) \ DOMAIN After.data

\* the turns that reset the conversation: cancel from confirm, any message
\* after completed, and a greeting where the handler honours it
ResetTurn ==
    \/ Before.stage = "confirm" /\ Said(Str_cancel)
    \/ Before.stage = "completed"
    \/ isGreeting(Text) /\ (BusinessAware \/ Before.stage = "idle")

\* C16: a field of the draft that has been set stays in the draft on every
\* later turn, except on a reset (cancel from confirm, restart after
\* completed, greeting reset); and every reset leaves the draft empty, not
\* partly filled.
C16_DraftKeptUntilReset ==
    Acted =>
        /\ Dropped # {} => ResetTurn
        /\ ResetTurn => After.data = NoData

\* a turn of the handler of server.js found the five fields set and kept
\* them all
C16_Witness ==
    /\ Acted /\ variant = "server"
    /\ DraftFields \subseteq DOMAIN Before.data
    /\ ~ResetTurn
    /\ DraftFields \subseteq DOMAIN After.data
    /\ \A k \in DraftFields : After.data[k] = Before.data[k]

----------------------------------------------------------------------------
(* Requests that arrive together *)

\* the session after the two requests were handled one after the other, the
\* request `first` before the other
Sequential(first) ==
    Run(variant, pending.origin, <<pending.sent[first], pending.sent[3 - first]>>)

\* C17: a request is handled atomically, so two requests sent together for
\* the same session take effect one after the other: when one has been
\* handled the session is what that request alone makes of it, and when both
\* have been handled its stage and draft are those of one of the two
\* sequential orders.
C17_SerialOutcome ==
    /\ (pending.sent # <<>> /\ Cardinality(pending.waiting) = 1) =>
           \E i \in {1, 2} \ pending.waiting :
               sessions["s1"] = Run(variant, pending.origin, <<pending.sent[i]>>)
    /\ (pending.sent # <<>> /\ pending.waiting = {}) =>
           sessions["s1"] \in {Sequential(1), Sequential(2)}

\* both requests were handled, the one sent second first, and the other
\* order would have left the session elsewhere
C17_Witness ==
    /\ pending.sent # <<>> /\ pending.waiting = {}
    /\ Sequential(1) # Sequential(2)
    /\ sessions["s1"] = Sequential(2)
    /\ sessions["s1"].stage = "askMessage"

----------------------------------------------------------------------------
(* The stage labels *)

\* the stage labels the dispatcher of server.js tests (lines 128..335)
HandledStagesServer ==
    {"idle", "askOccasion", "askOccasionCustom", "askTemplate",
     "askAmount", "askRecipientEmail", "askMessage", "confirm",
     "completed"}

\* the stage labels the dispatcher of the first handler tests (lines 141..404)
HandledStagesV1 ==
    {"idle", "askBuyerType", "awaitStart", "askOccasion",
     "askOccasionCustom", "askTemplate", "askAmount",
     "askRecipientEmail", "askMessage", "confirm", "completed"}

\* the stage labels the dispatcher of the second handler tests (lines 593..1217)
HandledStagesV2 ==
    {"idle", "askBuyerType", "awaitStart", "bizWelcome", "bizLead",
     "bizNeedsOccasion", "bizNeedsDenomination",
     "bizNeedsDenominationCustom", "bizNeedsBudget", "bizNeedsDelivery",
     "bizDiscount", "bizQuote", "bizPI", "bizPIUpload",
     "bizPOValidated", "bizIssued", "bizFinal", "bizFeedback",
     "askOccasion", "askOccasionCustom", "askTemplate", "askAmount",
     "askRecipientEmail", "askMessage", "confirm", "completed"}

\* the stage labels the dispatcher of the third handler tests (lines 1429..2719)
HandledStagesV3 ==
    {"idle", "askBuyerType", "awaitStart", "bizWelcome", "bizOptions",
     "bizLead", "bizVerification", "bizNeedsOccasion",
     "bizNeedsOccasionCustom", "bizNeedsOrderDetails",
     "bizNeedsDelivery", "bizOrderSummary", "bizManualRequirements",
     "bizNeedsDenomination", "bizNeedsDenominationCustom",
     "bizNeedsBudget", "bizDiscount", "bizQuote", "bizPaymentInfo",
     "bizPaymentOptions", "bizPaymentMethod", "bizPaymentProcessing",
     "bizIssued", "bizReports", "bizReportInvoices",
     "bizReportDelivery", "bizReportQuery", "bizReportComplete",
     "bizFinal", "bizFeedback", "askOccasion", "askOccasionCustom",
     "askTemplate", "askAmount", "askRecipientEmail", "askMessage",
     "confirm", "completed"}

HandledStages ==
    CASE variant = "server" -> HandledStagesServer
      [] variant = "v1" -> HandledStagesV1
      [] variant = "v2" -> HandledStagesV2
      [] variant = "v3" -> HandledStagesV3

\* C18: the stage of every session is at every moment one of the labels the
\* dispatcher of the running handler tests, and no turn is answered by the
\* fallback reply "Sorry, I didn't understand that. Say 'hi' to start."
C18_StageAlwaysHandled ==
    /\ \A id \in DOMAIN sessions : sessions[id].stage \in HandledStages
    /\ Acted => /\ Before.stage \in HandledStages
                /\ resp.reply # "Sorry, I didn't understand that. Say 'hi' to start."

\* a turn answered by the last branch before the fallback, that of stage
\* completed
C18_Witness ==
    /\ Acted /\ variant = "server"
    /\ Before.stage = "completed" /\ After.stage = "idle"
    /\ resp.reply = "Say 'hi' to start a new gift card."
    /\ ~isGreeting(Text)

----------------------------------------------------------------------------
(* The range of the amount *)

\* C19: the amount stage accepts only amounts from 5 to 2000: an amount in
\* the range is accepted and the conversation goes on to the recipient, an
\* amount outside it is rejected and the stage stays askAmount.
C19_RangeEnforced ==
    (variant = "server" /\ Acted /\ turn.stage = "askAmount") =>
        LET inRange == /\ Len(SignificantDigits(Text)) \in 1..4
                       /\ DecimalValue(0, SignificantDigits(Text)) \in 5..2000
        IN  IF inRange THEN After.stage = "askRecipientEmail"
            ELSE After.stage = "askAmount"

----------------------------------------------------------------------------
(* The order of the questions *)

\* C20: the conversation collects the amount first, then the occasion, then
\* the recipient, then the personal message, then the delivery date, and
\* shows the order summary for confirmation only after all five: a field is
\* in the draft only if the fields asked before it are, and a session in
\* stage confirm has all five.
C20_ReadmeOrder ==
    (variant = "server" /\ Acted) =>
        LET d == DOMAIN After.data
        IN  /\ "occasion" \in d => "amount" \in d
            /\ "recipientEmail" \in d => "occasion" \in d
            /\ "personalMessage" \in d => "recipientEmail" \in d
            /\ "deliveryDate" \in d => "personalMessage" \in d
            /\ After.stage = "confirm" =>
                   {"amount", "occasion", "recipientEmail", "personalMessage",
                    "deliveryDate"} \subseteq d

----------------------------------------------------------------------------
(* Restarting after an order *)

\* the last turn ended an order: 'confirm' completed it or 'cancel' dropped it
OrderEnded ==
    /\ Acted /\ turn.stage = "confirm"
    /\ After.stage \in {"completed", "idle"}

\* C21: after an order has been completed or cancelled, a new amount sent as
\* the next message starts a new order: the amount is taken into the draft
\* and the session is in a stage of the new order.
C21_AmountRestarts ==
    [][(variant = "server" /\ OrderEnded /\ PositiveAmount(Text'))
          => /\ "amount" \in DOMAIN After'.data
             /\ After'.stage \notin {"idle", "completed"}]_vars

----------------------------------------------------------------------------
(* The optional personal message *)

\* C22: at the message stage, 'skip' or an empty message advances to the
\* confirmation stage with no personal message recorded, and the
\* confirmation summary contains the chosen amount and the label of the
\* chosen template.
C22_SkipLeavesNoMessage ==
    (Acted /\ turn.stage = "askMessage" /\ (Text = <<>> \/ Said(Str_skip))) =>
        /\ After.stage = "confirm"
        /\ \/ "personalMessage" \notin DOMAIN After.data
           \/ After.data["personalMessage"] = <<>>
        /\ resp.summary # NoData
        /\ resp.summary.amount = After.data["amount"]
        /\ After.data["templateId"] \in TemplateIds =>
               resp.summary.templateLabel = TemplateLabels[After.data["templateId"]]

----------------------------------------------------------------------------
(* Rejected messages and the draft *)

\* C23: a message the current stage rejects leaves the draft unchanged as
\* well as the stage; in particular a verification submission of the third
\* handler that is not accepted (the session stays in bizVerification)
\* stores none of the submitted fields in the draft and generates no
\* request id.
C23_RejectedKeepsDraft ==
    /\ (variant = "server" /\ Acted /\ Rejected) => After = Before
    /\ (variant = "v3" /\ Acted /\ turn.stage = "bizVerification"
          /\ After.stage = "bizVerification") =>
           /\ After.data = Before.data
           /\ "requestId" \notin DOMAIN After.data["biz"]

----------------------------------------------------------------------------
(* The greeting inside a longer message *)

\* the message is nothing but one of the greeting words
IsGreetingWord == toLowerCase(Text) \in GreetingWords

\* C24: in the business-aware handlers only a message that is itself hi,
\* hello or hey triggers the global reset (stage awaitStart, draft emptied);
\* any other message is left to the current stage, so that a valid
\* recipient address is stored and the session moves to askMessage, and a
\* personal message is stored and the session moves to confirm, also when
\* the text contains one of the greeting words.
C24_OnlyGreetingResets ==
    (BusinessAware /\ Acted /\ ~IsGreetingWord) =>
        /\ (Before.data # NoData /\ turn.stage # "awaitStart")
               => ~Restarted("awaitStart")
        /\ (turn.stage = "askRecipientEmail" /\ isValidEmail(Text)) =>
               /\ After.stage = "askMessage"
               /\ After.data = Put(Before.data, "recipientEmail", Text)
        /\ turn.stage = "askMessage" =>
               /\ After.stage = "confirm"
               /\ After.data = Put(Before.data, "personalMessage", Text)

----------------------------------------------------------------------------
(* The template of the order *)

\* C25: the template identifier in the draft is always one of the
\* identifiers of the gallery (t1, t2, t3, t4); a message in stage
\* askTemplate that selects no template of the gallery is rejected: the
\* stage stays askTemplate and no template is stored.
C25_TemplateFromGallery ==
    Acted =>
        /\ "templateId" \in DOMAIN After.data => After.data["templateId"] \in TemplateIds
        /\ (turn.stage = "askTemplate" /\ ~isGreeting(Text)
              /\ toLowerCase(Text) \notin TemplateIds
              /\ \A id \in TemplateIds : toLowerCase(Text) # Str_templateColon \o id) =>
               After = Before

----------------------------------------------------------------------------
(* The draft at confirmation *)

\* the fields of the draft the confirmation shows beside the message
OrderFields == {"occasion", "templateId", "amount", "recipientEmail"}

\* the draft holds a complete order: a non-empty occasion, a non-empty
\* template id, an integer amount greater than zero and a recipient address
\* of valid shape
CompleteOrder(data) ==
    /\ OrderFields \subseteq DOMAIN data
    /\ data["occasion"] # <<>>
    /\ data["templateId"] # <<>>
    /\ data["amount"] # Infinity /\ data["amount"] > 0
    /\ isValidEmail(data["recipientEmail"])

\* C26: in every state whose stage is confirm the draft holds a complete
\* order (non-empty occasion and template id, an integer amount greater
\* than zero, a recipient address of valid shape), and the receipt that
\* 'confirm' produces carries exactly these values of the draft.
C26_ConfirmDraftComplete ==
    /\ \A id \in DOMAIN sessions :
          sessions[id].stage = "confirm" => CompleteOrder(sessions[id].data)
    /\ (Acted /\ resp.receipt # NoData) =>
          /\ OrderFields \subseteq DOMAIN resp.receipt
          /\ resp.receipt["occasion"] = Before.data["occasion"]
          /\ resp.receipt["templateId"] = Before.data["templateId"]
          /\ resp.receipt["recipientEmail"] = Before.data["recipientEmail"]
          /\ LET shown == DigitsOf(resp.receipt["amount"])
             IN  /\ shown # <<>>
                 /\ DecimalValue(0, shown) = Before.data["amount"]

----------------------------------------------------------------------------
(* One receipt for one order *)

\* the stages in which each field of the draft is asked for
AskedIn(field) ==
    CASE field = "occasion" -> {"askOccasion", "askOccasionCustom"}
      [] field = "templateId" -> {"askTemplate"}
      [] field = "amount" -> {"askAmount"}
      [] field = "recipientEmail" -> {"askRecipientEmail"}
      [] field = "personalMessage" -> {"askMessage"}

\* the last turn produced a receipt
ReceiptProduced == Acted /\ resp.receipt # NoData

\* a receipt is produced from a filled-in draft only, and a field enters the
\* draft only in the stage that asks for it
ReceiptNeedsStages ==
    Acted =>
        /\ ReceiptProduced =>
               /\ Before.stage = "confirm" /\ After.stage = "completed"
               /\ DraftFields \subseteq DOMAIN Before.data
        /\ \A field \in DraftFields :
               (field \notin DOMAIN Before.data /\ field \in DOMAIN After.data)
                   => Before.stage \in AskedIn(field)

\* C27: a receipt is produced at most once per filled-in order. The turn
\* that follows a receipt produces no receipt and leaves the draft empty;
\* a receipt is produced only from stage confirm with all five fields in the
\* draft; and a field enters the draft only in its own stage. So a second
\* receipt in the session requires the occasion, template, amount, recipient
\* and message stages to be passed through again.
C27_OneReceiptPerOrder ==
    [][/\ ReceiptProduced =>
              /\ ~ReceiptProduced'
              /\ After'.data = NoData
       /\ ReceiptNeedsStages']_vars

\* the message after a receipt found the filled-in draft of the placed order
\* and left an empty one, without a receipt
C27_Witness ==
    /\ Acted /\ Before.stage = "completed"
    /\ DraftFields \subseteq DOMAIN Before.data
    /\ After.data = NoData
    /\ ~ReceiptProduced

----------------------------------------------------------------------------
(* The length of the personal purchase *)

\* the position of a stage on the path of the personal purchase
Rank(stage) ==
    CASE stage = "idle" -> 0
      [] stage = "askOccasion" -> 1
      [] stage = "askOccasionCustom" -> 2
      [] stage = "askTemplate" -> 3
      [] stage = "askAmount" -> 4
      [] stage = "askRecipientEmail" -> 5
      [] stage = "askMessage" -> 6
      [] stage = "confirm" -> 7
      [] stage = "completed" -> 8

\* the last message was valid for the stage it was sent in: a greeting in
\* idle; afterwards an input the stage accepts that is neither a greeting
\* nor 'cancel'
ValidTurn ==
    /\ Acted
    /\ IF turn.stage = "idle" THEN isGreeting(Text)
       ELSE HappyInput /\ ~IsGreetingWord /\ ~Said(Str_cancel)

\* C28: in backend/server.js a session that starts in idle and is sent a
\* valid input at every turn reaches stage completed within 8 turns and
\* visits no stage twice: every valid turn moves the session to a stage
\* further along the path idle (0) .. completed (8), so at most 8 such turns
\* fit between idle and completed, and no stage can come back.
C28_CompletesInEightTurns ==
    (variant = "server" /\ ValidTurn) =>
        /\ Rank(After.stage) > Rank(Before.stage)
        /\ Rank(After.stage) <= 8
        /\ Rank(After.stage) = 8 <=> After.stage = "completed"

\* the longest path was taken (the occasion 'other' and a custom occasion)
\* and the valid 'confirm' completed the order
C28_Witness ==
    /\ variant = "server" /\ ValidTurn
    /\ Before.stage = "confirm" /\ After.stage = "completed"
    /\ Before.data["occasion"] = Str_other

----------------------------------------------------------------------------
(* Randomness *)

\* the draws a turn could have made instead of the one it made
Draws ==
    [token : Tokens \cup {"e07b31"},
     orderId : OrderIds \cup {"6ec0bd7f"},
     requestId : RequestIds \cup {"GC2025-03C9"}]

\* what the last turn would have left had it drawn rnd
Redone(rnd) == Handle(variant, Before, Text, rnd)

\* the draft without the generated request id
Scrub(data) ==
    IF "biz" \in DOMAIN data /\ "requestId" \in DOMAIN data["biz"]
    THEN Put(data, "biz",
             [k \in DOMAIN data["biz"] \ {"requestId"} |-> data["biz"][k]])
    ELSE data

\* two records agree except in the fields named
AgreeApartFrom(a, b, fields) ==
    /\ DOMAIN a = DOMAIN b
    /\ \A k \in DOMAIN a \ fields : a[k] = b[k]

\* the outcome out has the stage and the draft of the last turn, apart from
\* the generated request id
SameSession(out) ==
    /\ out.stage = After.stage
    /\ Scrub(out.data) = Scrub(After.data)

\* the reply of out is the reply of the last turn, apart from the token of
\* the link and from the fields named
SameReply(out, receiptIds, quotedIds) ==
    /\ out.status = resp.status
    /\ out.reply = resp.reply
    /\ out.ui = resp.ui
    /\ (out.link = NoLink) <=> (resp.link = NoLink)
    /\ out.link # NoLink => out.link.prefix = resp.link.prefix
    /\ AgreeApartFrom(out.receipt, resp.receipt, {"giftLink"} \cup receiptIds)
    /\ AgreeApartFrom(out.summary, resp.summary, quotedIds)

\* C29 as stated: whatever the random values of a turn, the same stage,
\* draft and message give the same next stage, the same next draft apart
\* from generated identifiers, and the same reply apart from the token of
\* the gift link.
C29_SameApartFromLinkToken ==
    Acted => \A rnd \in Draws :
        SameSession(Redone(rnd)) /\ SameReply(Redone(rnd), {}, {})

\* C29, amended: the next stage and the next draft are as stated; the reply
\* is the same apart from the token of the gift link, the order id that the
\* receipt of backend/server.js prints, and the request id that the second
\* handler prints when it accepts the lead.
C29_SameApartFromGeneratedIds ==
    Acted => \A rnd \in Draws :
        SameSession(Redone(rnd)) /\ SameReply(Redone(rnd), {"orderId"}, {"requestId"})

\* an order was placed in backend/server.js, and with another draw the
\* receipt would carry another order id
C29_Witness ==
    /\ Acted /\ variant = "server"
    /\ Before.stage = "confirm" /\ After.stage = "completed"
    /\ \E rnd \in Draws :
          Redone(rnd).receipt["orderId"] # resp.receipt["orderId"]

----------------------------------------------------------------------------
(* The limit of a business order *)

\* the limit of the order form (App.jsx, BizOrderForm)
OrderLimit == 300000

\* the draft holds a business order above the limit
LargeOrder(data) ==
    /\ "biz" \in DOMAIN data
    /\ "totalAmount" \in DOMAIN data["biz"]
    /\ data["biz"]["totalAmount"] > OrderLimit

\* C30: a business order whose total amount exceeds 300000 is not accepted
\* as order details: the session stays in the order-details stage, and no
\* session reaches the order summary with such an order.
C30_LargeOrderRefused ==
    (variant = "v3" /\ Acted) =>
        /\ (turn.stage = "bizNeedsOrderDetails" /\ LargeOrder(After.data)) =>
               After.stage = "bizNeedsOrderDetails"
        /\ After.stage = "bizOrderSummary" => ~LargeOrder(After.data)

----------------------------------------------------------------------------
(* The order of the third handler: one business conversation brought to    *)
(* the stage that asks for the order, then orders in the three forms the   *)
(* stage reads (the two payloads of the order form and free text), the     *)
(* delivery stage, the order summary and the manual requirements.          *)

\* the payloads 'orders|<json>|<total>' and 'order|<quantity>|<denomination>'
OrderForms ==
    {<<"o", "r", "d", "e", "r", "s", "|", "[", "{", "\"", "d", "e", "n", "o", "m", "i", "n", "a", "t", "i", "o", "n", "\"", ":", "\"", "1", "0", "0", "\"", ",", "\"", "c", "o", "u", "n", "t", "\"", ":", "\"", "5", "\"", "}", "]", "|", "5", "0", "0">>,
     <<"o", "r", "d", "e", "r", "s", "|", "[", "{", "\"", "d", "e", "n", "o", "m", "i", "n", "a", "t", "i", "o", "n", "\"", ":", "\"", "1", "0", "0", "\"", ",", "\"", "c", "o", "u", "n", "t", "\"", ":", "\"", "5", "\"", "}", ",", "{", "\"", "d", "e", "n", "o", "m", "i", "n", "a", "t", "i", "o", "n", "\"", ":", "\"", "5", "0", "\"", ",", "\"", "c", "o", "u", "n", "t", "\"", ":", "\"", "2", "\"", "}", "]", "|", "6", "0", "0">>,
     <<"o", "r", "d", "e", "r", "s", "|", "[", "{", "\"", "d", "e", "n", "o", "m", "i", "n", "a", "t", "i", "o", "n", "\"", ":", "\"", "1", "0", "0", "\"", ",", "\"", "c", "o", "u", "n", "t", "\"", ":", "\"", "5", "\"", "}", "]", "|", "7", "0", "0">>,
     <<"o", "r", "d", "e", "r", "s", "|", "[", "{", "\"", "d", "e", "n", "o", "m", "i", "n", "a", "t", "i", "o", "n", "\"", ":", "\"", "1", "0", "0", "\"", ",", "\"", "c", "o", "u", "n", "t", "\"", ":", "\"", "0", "\"", "}", "]", "|", "5", "0", "0">>,
     <<"o", "r", "d", "e", "r", "s", "|", "[", "{", "\"", "d", "e", "n", "o", "m", "i", "n", "a", "t", "i", "o", "n", "\"", ":", "\"", "1", "0", "0", "\"", ",", "\"", "c", "o", "u", "n", "t", "\"", ":", "\"", "x", "\"", "}", "]", "|", "5", "0", "0">>,
     <<"o", "r", "d", "e", "r", "s", "|", "[", "{", "\"", "d", "e", "n", "o", "m", "i", "n", "a", "t", "i", "o", "n", "\"", ":", "\"", "1", "0", "0", "\"", ",", "\"", "c", "o", "u", "n", "t", "\"", ":", "\"", "5", "\"", "}", "]", "|", "0">>,
     <<"o", "r", "d", "e", "r", "s", "|", "[", "]", "|", "5", "0", "0">>,
     <<"o", "r", "d", "e", "r", "s", "|", "[">>,
     <<"o", "r", "d", "e", "r", "|", "5", "|", "1", "0", "0">>,
     <<"o", "r", "d", "e", "r", "|", "0", "|", "1", "0", "0">>,
     <<"o", "r", "d", "e", "r", "|", "5", "|", "x">>}

\* free text, with and without the characters the amount pattern asks for
OrderFreeTexts ==
    {<<"3", " ", "c", "a", "r", "d", "s", " ", "x", " ", "U+201A", "U+00C7", "1", "0", "0">>,
     <<"0", " ", "c", "a", "r", "d", "s", " ", "x", " ", "U+201A", "U+00C7", "1", "0", "0">>,
     <<"U+201A", "U+00C7", "U+03C0", "1", "5", "0", "0">>,
     <<"U+201A", "U+00C7", "U+03C0", "0">>,
     <<"3", " ", "c", "a", "r", "d", "s", " ", "x", " ", "1", "0", "0">>,
     <<"s", "o", "o", "n">>}

ManualTexts ==
    {<<"o", "r", "d", "e", "r", "|", "3", "|", "2", "0", "0">>,
     <<"o", "r", "d", "e", "r", "|", "0", "|", "5">>,
     <<"3", " ", "c", "a", "r", "d", "s", " ", "x", " ", "U+201A", "U+00C7", "2", "0", "0">>,
     <<"s", "o", "o", "n">>}

OrderInputs(stage) ==
    CASE stage = "bizNeedsOrderDetails" -> OrderForms \cup OrderFreeTexts
      [] stage = "bizNeedsDelivery" ->
             {Str_confirm, Str_edit, <<"o", "p", "s", "@", "a", "c", "m", "e", ".", "c", "o">>}
      [] stage = "bizOrderSummary" -> {Str_1, Str_3}
      [] stage = "bizManualRequirements" -> ManualTexts
      [] OTHER -> {}

InitOrder ==
    /\ variant = "v3"
    /\ sessions = ("s1" :> OrderStartV3)
    /\ resp = NoResp
    /\ turn = NoTurn
    /\ pending = NoPending
    /\ client = NoClient

OrderChat ==
    \E message \in OrderInputs(sessions["s1"].stage) :
        Chat(variant, "s1", message, "s1", StoreRandom) /\ UNCHANGED <<pending, client>>

NextOrder == OrderChat

SpecOrder == InitOrder /\ [][NextOrder]_vars

\* a stored number that is an integer above zero
IsCount(n) == n # NaN /\ n # Infinity /\ n > 0

\* C31: the order-details stage of the third handler moves to the delivery
\* stage only when the recorded quantity and the recorded total amount are
\* both integers greater than zero, in each of the three forms of input
\* ('orders|<json>|<total>', 'order|<quantity>|<denomination>', free text);
\* every other input leaves the stage unchanged.
C31_OrderDetailsValidated ==
    (variant = "v3" /\ Acted /\ turn.stage = "bizNeedsOrderDetails") =>
        IF After.stage = "bizNeedsDelivery"
        THEN LET biz == After.data["biz"]
             IN  /\ Has(biz, "quantity") /\ IsCount(biz["quantity"])
                 /\ Has(biz, "totalAmount") /\ IsCount(biz["totalAmount"])
        ELSE After.stage = turn.stage

\* the stages of the third handler that follow the order details, up to the
\* order summary and its revision
OrderedStages ==
    {"bizNeedsDelivery", "bizOrderSummary", "bizManualRequirements", "bizPaymentInfo"}

\* the draft holds order lines
HasOrderLines(data) ==
    /\ "biz" \in DOMAIN data
    /\ Has(data["biz"], "orders")
    /\ data["biz"]["orders"].isArray
    /\ data["biz"]["orders"].length > 0

Numeric(text) == text # <<>> /\ \A i \in 1..Len(text) : IsDigit(text[i])

\* the sum of denomination x count, and of the counts, over order lines
\* whose fields are numerals
RECURSIVE LinesTotal(_)
LinesTotal(items) ==
    IF items = <<>> THEN 0
    ELSE DecimalValue(0, items[1].denomination) * DecimalValue(0, items[1].count)
         + LinesTotal(Tail(items))

RECURSIVE LinesCount(_)
LinesCount(items) ==
    IF items = <<>> THEN 0
    ELSE DecimalValue(0, items[1].count) + LinesCount(Tail(items))

\* C32: in the third handler, in every state from the delivery stage onward
\* whose draft holds order lines, totalAmount is the sum of denomination x
\* count over the lines and quantity is the sum of the counts, also after the
\* order was changed in the manual-requirements stage.
C32_LinesAddUp ==
    (variant = "v3" /\ Acted /\ After.stage \in OrderedStages
        /\ HasOrderLines(After.data)) =>
        LET biz == After.data["biz"]
            items == biz["orders"].items
        IN  /\ \A i \in 1..Len(items) :
                   Numeric(items[i].denomination) /\ Numeric(items[i].count)
            /\ biz["totalAmount"] = LinesTotal(items)
            /\ biz["quantity"] = LinesCount(items)

----------------------------------------------------------------------------
(* The quotation of the second handler *)

\* C33: in the second handler (2% business discount) the quoted gross value,
\* denomination x number of cards, never exceeds the budget the user
\* entered, for every positive denomination and positive budget.
C33_QuoteWithinBudget ==
    (variant = "v2" /\ Acted /\ turn.stage = "bizDiscount"
        /\ After.stage = "bizQuote") =>
        LET biz == After.data["biz"]
        IN  /\ biz["denomination"] > 0 /\ biz["budget"] > 0
            /\ biz["quote"].gross = biz["quote"].denom * biz["quote"].count
            /\ biz["quote"].gross <= biz["budget"]

\* what the handler does for C33: the quotation is for max(1, floor(budget /
\* denomination)) cards. When the budget is at least the denomination the
\* gross value does not exceed the budget and falls short of it by less than
\* one card; when the budget is below the denomination one card is quoted
\* and the gross value is the denomination, above the budget.
C33_QuoteWithinBudgetOrOneCard ==
    (variant = "v2" /\ Acted /\ turn.stage = "bizDiscount"
        /\ After.stage = "bizQuote") =>
        LET biz == After.data["biz"]
            quote == biz["quote"]
        IN  /\ biz["denomination"] > 0 /\ biz["budget"] > 0
            /\ quote.denom = biz["denomination"]
            /\ quote.gross = quote.denom * quote.count
            /\ IF biz["budget"] >= biz["denomination"]
               THEN /\ quote.gross <= biz["budget"]
                    /\ biz["budget"] - quote.gross < biz["denomination"]
               ELSE /\ quote.count = 1
                    /\ quote.gross = biz["denomination"]
                    /\ quote.gross > biz["budget"]

\* a budget of 10 with the denomination 25: one card is quoted, gross 25
C33_Witness ==
    /\ variant = "v2" /\ Acted /\ turn.stage = "bizDiscount"
    /\ After.stage = "bizQuote"
    /\ After.data["biz"]["budget"] = 10
    /\ After.data["biz"]["quote"].count = 1
    /\ After.data["biz"]["quote"].gross = 25

----------------------------------------------------------------------------
(* The redemption checks of stage bizFinal *)

\* the redemption checks the draft counts
ChecksOf(data) ==
    IF "biz" \in DOMAIN data /\ Has(data["biz"], "checksToday")
    THEN data["biz"]["checksToday"] ELSE 0

LimitReply == "You've reached today's limit of 5 redemption checks."

\* the last message was a check command sent in stage bizFinal
CheckTurn ==
    /\ variant \in {"v2", "v3"} /\ Acted
    /\ turn.stage = "bizFinal" /\ isCheckGc(Text)

\* C34: in stage bizFinal of the second and third handlers the counter
\* checksToday stays within 0..5 in every reachable state; a check command
\* ('check gc <code>') is answered and counted while the counter is below 5,
\* and is refused with the limit message, counter and stage unchanged, once
\* it is 5; going to the feedback stage and back leaves the counter as it
\* was.
C34_ChecksLimited ==
    (variant \in {"v2", "v3"} /\ Acted) =>
        /\ ChecksOf(After.data) \in 0..MaxChecksToday
        /\ CheckTurn =>
               /\ After.stage = "bizFinal"
               /\ IF ChecksOf(turn.data) >= MaxChecksToday
                  THEN /\ ChecksOf(After.data) = ChecksOf(turn.data)
                       /\ resp.reply = LimitReply
                  ELSE /\ ChecksOf(After.data) = ChecksOf(turn.data) + 1
                       /\ resp.reply # LimitReply
        /\ ({turn.stage, After.stage} = {"bizFinal", "bizFeedback"}) =>
               ChecksOf(After.data) = ChecksOf(turn.data)

\* the sixth check command of an order, sent after a visit to the feedback
\* stage, was refused
C34_Witness ==
    /\ CheckTurn
    /\ ChecksOf(turn.data) = MaxChecksToday
    /\ ChecksOf(After.data) = MaxChecksToday
    /\ resp.reply = LimitReply
    /\ Has(After.data["biz"], "feedback")

----------------------------------------------------------------------------
(* The business record *)

\* a business stage: a label of the business-aware handlers that is not a
\* stage of the personal flow
BusinessStage(stage) ==
    stage \in (HandledStagesV2 \cup HandledStagesV3 \cup {"bizPI"}) \ HandledStagesV1

\* C35: in the second and third handlers every session whose stage is a
\* business stage holds the business record data.biz, and no turn sent in a
\* business stage ends in the error reply; also after a greeting reset,
\* after 'exit' from the reports and after the return from the reports to
\* the purchase options.
C35_BizRecordPresent ==
    variant \in {"v2", "v3"} =>
        /\ \A id \in DOMAIN sessions :
               BusinessStage(sessions[id].stage) => "biz" \in DOMAIN sessions[id].data
        /\ (Acted /\ BusinessStage(turn.stage)) =>
               /\ "biz" \in DOMAIN turn.data
               /\ resp.status = 200

\* the return from the reports to the purchase options, with the record
C35_Witness ==
    /\ variant = "v3" /\ Acted
    /\ turn.stage = "bizReportComplete" /\ After.stage = "bizOptions"
    /\ "biz" \in DOMAIN After.data
    /\ resp.status = 200

----------------------------------------------------------------------------
(* The way into the buyer-type question *)

\* the last turn moved the session into stage askBuyerType
EnteredBuyerType == Acted /\ After.stage = "askBuyerType" /\ turn.stage # "askBuyerType"

\* C36: in the business-aware handlers stage askBuyerType is entered only
\* from stage awaitStart, on the message 'start' or a message containing
\* 'buy'; the branch of stage idle that answers a greeting with the
\* buyer-type question is never taken.
C36_BuyerTypeOnlyFromStart ==
    BusinessAware =>
        /\ EnteredBuyerType =>
               /\ turn.stage = "awaitStart"
               /\ Said(Str_start) \/ includes(toLowerCase(Text), Str_buy)
               /\ ~isGreeting(Text)
        /\ Acted => resp.reply # "Are you buying for yourself or for business?"
        /\ (Acted /\ turn.stage = "idle") => After.stage \in {"idle", "awaitStart"}

\* a message containing 'buy' that is not 'start' opened the question
C36_Witness ==
    /\ BusinessAware /\ EnteredBuyerType
    /\ turn.stage = "awaitStart"
    /\ ~Said(Str_start) /\ includes(toLowerCase(Text), Str_buy)

----------------------------------------------------------------------------
(* The stages of the third handler that no turn assigns *)

\* stages the third handler tests but never reaches
DeadStagesV3 ==
    {"bizWelcome", "bizLead", "bizNeedsDenomination", "bizNeedsDenominationCustom",
     "bizNeedsBudget", "bizDiscount", "bizQuote"}

\* C37: in the third handler (1% business discount) the stages bizWelcome,
\* bizLead, bizNeedsDenomination, bizNeedsDenominationCustom, bizNeedsBudget,
\* bizDiscount and bizQuote are reached by no sequence of messages from a
\* fresh session, and the second branch of stage bizNeedsDelivery (which
\* records biz.delivery and moves to bizDiscount) is never executed: a turn
\* sent in bizNeedsDelivery is answered by the first branch.
C37_LegacyStagesDead ==
    variant = "v3" =>
        /\ \A id \in DOMAIN sessions :
               /\ sessions[id].stage \notin DeadStagesV3 \cup {"bizPI"}
               /\ "biz" \in DOMAIN sessions[id].data =>
                      ~Has(sessions[id].data["biz"], "delivery")
        /\ Acted => turn.stage \notin DeadStagesV3
        /\ (Acted /\ turn.stage = "bizNeedsDelivery") =>
               /\ After.stage \in {"bizNeedsDelivery", "bizOrderSummary", "awaitStart"}
               /\ resp.reply \in {"Confirm your delivery email:",
                                  "Please enter your delivery email:",
                                  "Here's a quick summary of your request:",
                                  WelcomeReply}

\* a turn sent in bizNeedsDelivery was answered with the order summary
C37_Witness ==
    /\ variant = "v3" /\ Acted
    /\ turn.stage = "bizNeedsDelivery" /\ After.stage = "bizOrderSummary"
    /\ resp.reply = "Here's a quick summary of your request:"

----------------------------------------------------------------------------
(* The chat page (frontend/src/App.jsx) talking to the handler. The page   *)
(* keeps sessionId, loading and messages in React state; an event handler  *)
(* reads the values of the render it was created in (client.view) and the  *)
(* continuation of sendMessage after its await reads the values of the     *)
(* render in which sendMessage was called. State set inside an event       *)
(* handler is rendered before the next event is dispatched; state set      *)
(* after the await is rendered at once or later, depending on the React    *)
(* version, so that render is a step of its own. The fields ui, showPicker *)
(* and input are left out: they decide which message is sent, which the    *)
(* model chooses freely.                                                   *)

\* the conversation is followed for MaxExchanges messages of the user
MaxExchanges == 3

\* calls of sendMessage that return at its guard are followed up to MaxDropped
MaxDropped == 2

NoAnswer == [status |-> 0, sessionId |-> NoId, reply |-> ""]

\* a render: the handlers now read the current state
rendered(c) ==
    [c EXCEPT !.view = [sessionId |-> c.sessionId, loading |-> c.loading,
                        messages |-> c.messages]]

\* the list without its i-th element
without(list, i) == SubSeq(list, 1, i - 1) \o SubSeq(list, i + 1, Len(list))

\* seeded fault: sendMessage does not test loading
sendMessage_IgnoresLoading(c, manualText) ==
    LET text == trim(manualText)
        next == c.view.messages \o <<[author |-> "user", text |-> text]>>
    IN  IF text = <<>> THEN [c EXCEPT !.dropped = Append(@, text)]
        ELSE rendered([c EXCEPT !.messages = next, !.loading = TRUE,
                                !.flight = Append(@, [sessionId |-> c.view.sessionId,
                                                      message |-> text, next |-> next,
                                                      answer |-> NoAnswer])])

\* sendMessage(manualText) up to its await: the guard, setMessages(next),
\* setLoading(true) and the fetch with the body {sessionId, message: text};
\* a call that returns at the guard is recorded in dropped
sendMessage(c, manualText) ==
    LET text == trim(manualText)
        next == c.view.messages \o <<[author |-> "user", text |-> text]>>
    IN  IF text = <<>> \/ c.view.loading THEN [c EXCEPT !.dropped = Append(@, text)]
        ELSE rendered([c EXCEPT !.messages = next, !.loading = TRUE,
                                !.flight = Append(@, [sessionId |-> c.view.sessionId,
                                                      message |-> text, next |-> next,
                                                      answer |-> NoAnswer])])

\* seeded fault: setSessionId(data.sessionId)
onResponse_TakesReplyId(c, i) ==
    LET request == c.flight[i]
        data == request.answer
    IN  [c EXCEPT !.sessionId = data.sessionId,
                  !.messages = request.next \o <<[author |-> "bot", reply |-> data.reply]>>,
                  !.loading = FALSE,
                  !.flight = without(@, i)]

\* sendMessage after its await, when res.json() gave data:
\* setSessionId(data.sessionId || sessionId), setMessages([...next, bot]),
\* and setLoading(false) of the finally block
onResponse(c, i) ==
    LET request == c.flight[i]
        data == request.answer
    IN  [c EXCEPT !.sessionId = IF Truthy(data.sessionId) THEN data.sessionId
                                ELSE request.sessionId,
                  !.messages = request.next \o <<[author |-> "bot", reply |-> data.reply]>>,
                  !.loading = FALSE,
                  !.flight = without(@, i)]

\* the catch block of sendMessage (fetch or res.json() rejected), and
\* setLoading(false) of the finally block
onFailure(c, i) ==
    [c EXCEPT !.messages = c.flight[i].next
                           \o <<[author |-> "bot", reply |-> "Error talking to server."]>>,
              !.loading = FALSE,
              !.flight = without(@, i)]

\* what the user types or taps: two messages of the flow and a blank one
ClientTexts == {<<"h", "i">>, <<"s", "t", "a", "r", "t">>, <<" ">>}

\* generateSessionId() when the request names no stored session
newSessionId(incomingId) ==
    IF Truthy(incomingId) /\ incomingId \in DOMAIN sessions THEN incomingId
    ELSE CHOOSE id \in GeneratedIds \ DOMAIN sessions : TRUE

\* the user sends a message or taps an option
ClientSend ==
    /\ \E text \in ClientTexts :
           /\ client' = sendMessage(client, text)
           /\ Len(client'.messages) <= 2 * MaxExchanges
           /\ Len(client'.dropped) <= MaxDropped
    /\ UNCHANGED <<variant, sessions, resp, turn, pending>>

\* React renders the state set after the await
ClientRender ==
    /\ client # rendered(client)
    /\ client' = rendered(client)
    /\ UNCHANGED <<variant, sessions, resp, turn, pending>>

\* the handler answers a request in flight
ServerAnswers ==
    \E i \in 1..Len(client.flight) :
        LET request == client.flight[i]
        IN  /\ request.answer = NoAnswer
            /\ HasRoom(request.sessionId)
            /\ Chat(variant, request.sessionId, request.message,
                    newSessionId(request.sessionId), StoreRandom)
            /\ client' = [client EXCEPT !.flight[i].answer =
                              [status |-> resp'.status, sessionId |-> resp'.sessionId,
                               reply |-> resp'.reply]]
            /\ UNCHANGED pending

\* the handler ends in its catch block and answers 500 with sessionId null
ServerThrows ==
    \E i \in 1..Len(client.flight), written \in BOOLEAN :
        LET request == client.flight[i]
        IN  /\ request.answer = NoAnswer
            /\ HasRoom(request.sessionId)
            /\ ChatThrows(variant, request.sessionId, request.message,
                          newSessionId(request.sessionId), StoreRandom, written)
            /\ client' = [client EXCEPT !.flight[i].answer =
                              [status |-> resp'.status, sessionId |-> resp'.sessionId,
                               reply |-> resp'.reply]]
            /\ UNCHANGED pending

\* the response arrives at the page
ClientReceives ==
    /\ \E i \in 1..Len(client.flight) :
           /\ client.flight[i].answer # NoAnswer
           /\ client' = onResponse(client, i)
    /\ UNCHANGED <<variant, sessions, resp, turn, pending>>

\* the request fails: it never reached the handler, or its response is lost
RequestFails ==
    /\ \E i \in 1..Len(client.flight) : client' = onFailure(client, i)
    /\ UNCHANGED <<variant, sessions, resp, turn, pending>>

InitClient ==
    /\ variant \in StoreVariants
    /\ sessions = <<>>
    /\ resp = NoResp
    /\ turn = NoTurn
    /\ pending = NoPending
    /\ client = NoClient

NextClient ==
    \/ ClientSend
    \/ ClientRender
    \/ ServerAnswers
    \/ ServerThrows
    \/ ClientReceives
    \/ RequestFails

SpecClient == InitClient /\ [][NextClient]_vars

----------------------------------------------------------------------------
(* The requests of the chat page *)

\* the messages shown alternate between the user and the bot
Alternating(messages) ==
    \A i \in 1..Len(messages) :
        messages[i].author = IF i % 2 = 1 THEN "user" ELSE "bot"

\* at most one request is in flight, it is that of the last message shown,
\* and the page is loading while it is
OneInFlight ==
    /\ Len(client.flight) <= 1
    /\ Alternating(client.messages)
    /\ client.flight # <<>> <=> Len(client.messages) % 2 = 1
    /\ client.flight # <<>> =>
           /\ client.loading /\ client.view.loading
           /\ client.messages = client.flight[1].next
           /\ client.flight[1].message = client.messages[Len(client.messages)].text
           /\ client.flight[1].answer # NoAnswer =>
                  /\ turn.message = client.flight[1].message
                  /\ turn.incomingId = client.flight[1].sessionId

\* while a request is in flight no step sends another one, and a call of
\* sendMessage changes nothing but the record of dropped calls
DroppedWhileInFlight ==
    client.flight # <<>> =>
        /\ Len(client'.flight) <= Len(client.flight)
        /\ client'.dropped # client.dropped =>
               /\ client' = [client EXCEPT !.dropped = client'.dropped]
               /\ UNCHANGED <<sessions, resp, turn>>

\* C38: the chat page never has more than one /chat request in flight: while
\* a request awaits its response every further call of sendMessage (typed
\* text, Enter key or option button) returns without sending, so the handler
\* receives the messages of the conversation one at a time, each after the
\* reply to the one before it was taken in.
C38_OneRequestInFlight == []OneInFlight /\ [][DroppedWhileInFlight]_vars

\* the first request is in flight and a message sent meanwhile was dropped
C38_Witness ==
    /\ Len(client.flight) = 1 /\ Len(client.messages) = 1
    /\ \E i \in 1..Len(client.dropped) : client.dropped[i] # <<>>

----------------------------------------------------------------------------
(* The session id the chat page holds *)

ErrorReplies == {"Something went wrong. Please try again.", "Error talking to server."}

\* the step takes in a successful reply that carries a session id
TakesReplyId ==
    /\ client.flight # <<>>
    /\ client.flight[1].answer.status = 200
    /\ client'.sessionId = client.flight[1].answer.sessionId
    /\ client'.sessionId \in DOMAIN sessions

\* the page holds no id until a successful reply gives it one; from then on
\* no step changes the id, every request sent carries it, and no request
\* makes the handler create another session
KeepsSessionId ==
    /\ client'.sessionId # client.sessionId => (client.sessionId = NoId /\ TakesReplyId)
    /\ client.sessionId # NoId =>
           /\ client'.sessionId = client.sessionId
           /\ DOMAIN sessions' = DOMAIN sessions
           /\ Len(client'.flight) > Len(client.flight) =>
                  client'.flight[Len(client'.flight)].sessionId = client.sessionId

\* C39: after the first successful reply the chat page sends the session id
\* the server returned with every later request; it keeps that id when a
\* reply carries a null session id (the error reply of the catch block) and
\* when the request fails, so an error turn never makes the page start a new
\* session.
C39_SessionIdKept == [][KeepsSessionId]_vars

\* the page holds an id, its last turn ended in the error reply of the
\* server, and the request now in flight carries the id
C39_Witness ==
    /\ client.sessionId # NoId
    /\ Len(client.messages) = 5 /\ Len(client.flight) = 1
    /\ client.messages[2].reply \notin ErrorReplies
    /\ client.messages[4].reply = "Something went wrong. Please try again."
    /\ client.flight[1].sessionId = client.sessionId

====
